---- MODULE Spec2Model ----
(***************************************************************************)
(* A model of modflow-devtools' definition-file (DFN) tooling:             *)
(*   - the hierarchy builder  (dfn/__init__.py to_tree / to_flat and the   *)
(*     older dfn.py infer_tree),                                           *)
(*   - the v1 -> v2 schema migration (MapV1To2),                           *)
(*   - the period-block conversion (MapV1To2.map_period_block),            *)
(*   - strict / non-strict deserialisation (Dfn.from_dict, Field*.from_dict)*)
(*   - the DFN file parser (dfn/parse.py parse_dfn and its helpers),        *)
(*   - the codec's grammar helpers and transformer (codec.py),             *)
(*   - the parsing of MF6 input text into blocks (parse_mf6_input),        *)
(*   - the local model registry (models.py LocalRegistry.index).           *)
(* Each part has its own specification (SpecTree, SpecMap, SpecPeriod,     *)
(* SpecStrict, SpecParse, SpecCodec, SpecDoc, SpecReg) over the variables  *)
(* of that part; the variables of the other parts stay at Idle.            *)
(***************************************************************************)
EXTENDS Integers, Sequences, FiniteSets, TLC

VARIABLES
    tpc,      \* hierarchy: "start" | "treed" | "failed" | "flattened" | "inferred"
    dfns,     \* hierarchy: the flat input, component name -> Dfn
    tree,     \* hierarchy: what to_tree returned or raised
    flatOut,  \* hierarchy: what to_flat returned
    itree,    \* hierarchy: what infer_tree (dfn.py) returned or raised
    ppc,      \* period block: how many times map_period_block has been applied
    pin,      \* period block: the block first given to map_period_block
    pprev,    \* period block: the argument of the last application
    pout,     \* period block: what the last application returned or raised
    mpc,      \* migration: "parsed" | "loaded" | "mapped" | "remapped"
    parsed,   \* migration: the attribute records parse_dfn returned, in file order
    mdfn,     \* migration: the Dfn given to map
    mout,     \* migration: what map returned or raised
    spc,      \* deserialisation: "given" | "dfn" | "fieldv1" | "fieldv2"
    sd,       \* deserialisation: the dict given to Dfn.from_dict
    sstrict,  \* deserialisation: the strict argument
    sdfn,     \* deserialisation: what Dfn.from_dict returned or raised
    sfld,     \* deserialisation: what Field*.from_dict returned or raised
    lpc,      \* parser: "reading" | "returned" | "raised"
    lines,    \* parser: the lines of the file given to parse_dfn
    lpos,     \* parser: the index of the next line
    lfield,   \* parser: the attributes collected for the current field
    lfields,  \* parser: the (name, field) pairs saved so far
    lmeta,    \* parser: the metadata lines saved so far
    lerr,     \* parser: the exception parse_dfn raised, "" when none
    cpc,      \* transformer: "new" | "bound" | "block" | "structured"
    cdfn,     \* transformer: the period block declaration of the component's DFN
    cstructs, \* transformer: _recarray_structures, for the period block
    ccols,    \* transformer: the row structure given to _structure_recarray_data
    ccontent, \* transformer: the content (lines) of the block transformed
    cout,     \* transformer: the lines the transformer returned
    dpc,      \* input parsing: "text" | "transformed"
    dtext,    \* input parsing: the BEGIN/END sections of the input text
    dout,     \* input parsing: what parse_mf6_input returned
    rpc,      \* registry: how many times index has been called
    rdisk,    \* registry: the model directories under the indexed path
    rprefix,  \* registry: the model_name_prefix argument
    rreg,     \* registry: the LocalRegistry's _paths, _files, _models, _examples
    rfirst    \* registry: the registry as the first call of index left it

treeVars == <<tpc, dfns, tree, flatOut, itree>>
periodVars == <<ppc, pin, pprev, pout>>
mapVars == <<mpc, parsed, mdfn, mout>>
strictVars == <<spc, sd, sstrict, sdfn, sfld>>
parseVars == <<lpc, lines, lpos, lfield, lfields, lmeta, lerr>>
codecVars == <<cpc, cdfn, cstructs, ccols, ccontent, cout>>
docVars == <<dpc, dtext, dout>>
regVars == <<rpc, rdisk, rprefix, rreg, rfirst>>
notTree == <<periodVars, mapVars, strictVars, parseVars, codecVars,
    docVars, regVars>>
notPeriod == <<treeVars, mapVars, strictVars, parseVars, codecVars,
    docVars, regVars>>
notMap == <<treeVars, periodVars, strictVars, parseVars, codecVars,
    docVars, regVars>>
notStrict == <<treeVars, periodVars, mapVars, parseVars, codecVars,
    docVars, regVars>>
notParse == <<treeVars, periodVars, mapVars, strictVars, codecVars,
    docVars, regVars>>
notCodec == <<treeVars, periodVars, mapVars, strictVars, parseVars,
    docVars, regVars>>
notDoc == <<treeVars, periodVars, mapVars, strictVars, parseVars, codecVars,
    regVars>>
notReg == <<treeVars, periodVars, mapVars, strictVars, parseVars, codecVars,
    docVars>>
vars == <<treeVars, periodVars, mapVars, strictVars, parseVars, codecVars,
    docVars, regVars>>

Idle == "idle"
TreeIdle == tpc = Idle /\ dfns = Idle /\ tree = Idle /\ flatOut = Idle /\ itree = Idle
PeriodIdle == ppc = Idle /\ pin = Idle /\ pprev = Idle /\ pout = Idle
MapIdle == mpc = Idle /\ parsed = Idle /\ mdfn = Idle /\ mout = Idle
StrictIdle == spc = Idle /\ sd = Idle /\ sstrict = Idle /\ sdfn = Idle /\ sfld = Idle
ParseIdle ==
    /\ lpc = Idle /\ lines = Idle /\ lpos = Idle /\ lfield = Idle
    /\ lfields = Idle /\ lmeta = Idle /\ lerr = Idle
CodecIdle ==
    /\ cpc = Idle /\ cdfn = Idle /\ cstructs = Idle /\ ccols = Idle
    /\ ccontent = Idle /\ cout = Idle
DocIdle == dpc = Idle /\ dtext = Idle /\ dout = Idle
RegIdle ==
    /\ rpc = Idle /\ rdisk = Idle /\ rprefix = Idle /\ rreg = Idle
    /\ rfirst = Idle

(***************************************************************************)
(* Bounds.                                                                 *)
(***************************************************************************)
MaxDfns == 3          \* components in one flat set
MaxDims == 2          \* dimensions in one v1 shape
MaxApply == 2         \* applications of map_period_block to one block
MaxFields == 3        \* attribute records in one definition file
MaxBlockFields == 1   \* field entries in the block of a dict given to from_dict
MaxLines == 3         \* lines in one definition file given to parse_dfn
MaxItems == 3         \* items on one line of a block
MaxCols == 2          \* column names in one recarray declaration
MaxContent == 2       \* entries in the content of one block
MaxBlocks == 2        \* BEGIN/END sections in one input text
MaxDocLines == 2      \* lines in one input text
MaxModels == 2        \* model directories under one indexed path
MaxIndex == 2         \* calls of index on one registry

(***************************************************************************)
(* Hierarchy builder.                                                      *)
(*                                                                         *)
(* A component name is the sequence of its "-"-separated tokens, so that   *)
(* endswith("-nam"), startswith("utl-"), "-" in name and split("-")[0]     *)
(* are computed as the code computes them.  No parent (None) is <<>>.      *)
(***************************************************************************)
NoParent == <<>>
SimNam == <<"sim", "nam">>
Sim    == <<"sim">>
GwfNam == <<"gwf", "nam">>
GwfDis == <<"gwf", "dis">>
UtlTs  == <<"utl", "ts">>

DfnNames == {SimNam, GwfNam, GwfDis, UtlTs, Sim}
ParentOpts == {NoParent, SimNam, GwfNam, Sim}

\* blocks: block name -> set of field names (None and {} are both <<>>).
\* The flat sets tried carry no empty block, so that what remap drops from a
\* component is only its unset attributes.
BlocksOptions == [b \in {"options"} |-> {"f"}]
BlocksPeriod  == [b \in {"options", "period"} |-> {"f"}]
BlockOpts == {BlocksOptions, BlocksPeriod}

Overflow == <<"!recursion">>

EndsWithNam(name) == Len(name) >= 2 /\ name[Len(name)] = "nam"
StartsWithPrefix(name) == Len(name) >= 2 /\ name[1] \in {"exg", "sln", "utl"}
HasDash(name) == Len(name) >= 2

\* misc.drop_none_or_empty under remap: empty blocks go, then empty maps
DropNoneOrEmpty(blocks) ==
    [b \in {x \in DOMAIN blocks : blocks[x] # {}} |-> blocks[b]]

\* a set_parent that leaves the parent as it is given
set_parent_AsGiven(dfn) ==
    [name |-> dfn.name,
     schema_version |-> dfn.schema_version,
     parent |-> dfn.parent,
     blocks |-> DropNoneOrEmpty(dfn.blocks),
     children |-> {}]

\* to_tree.set_parent
set_parent(dfn) ==
    LET name == dfn.name
        parent == IF name = SimNam THEN dfn.parent
                  ELSE IF EndsWithNam(name) THEN SimNam
                  ELSE IF StartsWithPrefix(name) THEN SimNam
                  ELSE IF HasDash(name) THEN <<name[1], "nam">>
                  ELSE dfn.parent
    IN [name |-> name,
        schema_version |-> dfn.schema_version,
        parent |-> parent,
        blocks |-> DropNoneOrEmpty(dfn.blocks),
        children |-> {}]

ChildNames(ds, n) == {m \in DOMAIN ds : ds[m].parent = n}

\* to_tree._build_tree: the names visited from node n.  A path longer than the
\* number of components can only come from a cycle, where Python's recursion
\* never returns; fuel exhausted is reported as Overflow.
RECURSIVE Visited(_, _, _)
Visited(ds, n, fuel) ==
    IF fuel = 0 THEN {Overflow}
    ELSE {n} \cup UNION {Visited(ds, c, fuel - 1) : c \in ChildNames(ds, n)}

\* a _build_tree that follows the parent links of every component of the set,
\* not only of those under the root
_build_tree_FromAll(ds, root) ==
    LET fuel == Cardinality(DOMAIN ds) + 1
        seen == Visited(ds, root, fuel)
        all == UNION {Visited(ds, n, fuel) : n \in DOMAIN ds}
    IN IF Overflow \in all
       THEN [err |-> "RecursionError", root |-> NoParent, nodes |-> <<>>]
       ELSE [err |-> "",
             root |-> root,
             nodes |-> [n \in seen |->
                          [ds[n] EXCEPT !.children = ChildNames(ds, n)]]]

_build_tree(ds, root) ==
    LET seen == Visited(ds, root, Cardinality(DOMAIN ds) + 1)
    IN IF Overflow \in seen
       THEN [err |-> "RecursionError", root |-> NoParent, nodes |-> <<>>]
       ELSE [err |-> "",
             root |-> root,
             nodes |-> [n \in seen |->
                          [ds[n] EXCEPT !.children = ChildNames(ds, n)]]]

FirstVersion(ds) ==
    IF DOMAIN ds = {} THEN 1
    ELSE ds[CHOOSE n \in DOMAIN ds : TRUE].schema_version

Roots(ds) == {n \in DOMAIN ds : ds[n].parent = NoParent}

Failure(e) == [err |-> e, root |-> NoParent, nodes |-> <<>>]

\* a to_tree that rejects only the rootless set
to_tree_AnyRoot(input) ==
    LET ds == [n \in DOMAIN input |-> set_parent(input[n])]
        v == FirstVersion(ds)
    IN IF v = 1 THEN Failure("NotImplementedError")
       ELSE IF v = 2
            THEN IF Cardinality(Roots(ds)) < 1
                 THEN Failure("ValueError: expected one root")
                 ELSE _build_tree(ds, CHOOSE r \in Roots(ds) : TRUE)
       ELSE Failure("ValueError: unsupported schema version")

\* to_tree
to_tree(input) ==
    LET ds == [n \in DOMAIN input |-> set_parent(input[n])]
        v == FirstVersion(ds)
    IN IF v = 1 THEN Failure("NotImplementedError")
       ELSE IF v = 2
            THEN IF Cardinality(Roots(ds)) # 1
                 THEN Failure("ValueError: expected one root")
                 ELSE _build_tree(ds, CHOOSE r \in Roots(ds) : TRUE)
       ELSE Failure("ValueError: unsupported schema version")

\* to_flat._flatten: walk the children links from the root
RECURSIVE _flatten(_, _, _)
_flatten(t, n, fuel) ==
    IF fuel = 0 THEN {}
    ELSE {n} \cup UNION {_flatten(t, c, fuel - 1) : c \in t.nodes[n].children}

to_flat(t) ==
    LET names == _flatten(t, t.root, Cardinality(DOMAIN t.nodes) + 1)
    IN [n \in names |-> [t.nodes[n] EXCEPT !.children = {}]]

\* dfn.py infer_tree: no inference, the root must be named "sim"
InferRoots(ds) == {n \in DOMAIN ds : ds[n].parent = NoParent}

infer_tree(ds) ==
    IF Cardinality(InferRoots(ds)) # 1
    THEN Failure("ValueError: expected one root")
    ELSE LET r == CHOOSE x \in InferRoots(ds) : TRUE
         IN IF r # Sim
            THEN Failure("ValueError: root must be sim")
            ELSE _build_tree(ds, r)

\* load_flat keys every component by its own name, and one batch is loaded
\* from one directory, so all its components have one schema version
FlatSet(S, v, pf, bf) ==
    [n \in S |-> [name |-> n, schema_version |-> v, parent |-> pf[n],
                  blocks |-> bf[n], children |-> {}]]

InitTree ==
    /\ tpc = "start"
    /\ \E S \in {T \in SUBSET DfnNames : Cardinality(T) <= MaxDfns} :
         \E v \in {1, 2} :
           \E pf \in [S -> ParentOpts] :
             \E bf \in [S -> BlockOpts] :
               dfns = FlatSet(S, v, pf, bf)
    /\ tree = Idle
    /\ flatOut = Idle
    /\ itree = Idle
    /\ PeriodIdle
    /\ MapIdle
    /\ StrictIdle
    /\ ParseIdle
    /\ CodecIdle
    /\ DocIdle
    /\ RegIdle

ToTree ==
    /\ tpc = "start"
    /\ tree' = to_tree(dfns)
    /\ tpc' = IF tree'.err = "" THEN "treed" ELSE "failed"
    /\ UNCHANGED <<dfns, flatOut, itree>>
    /\ UNCHANGED notTree

ToFlat ==
    /\ tpc = "treed"
    /\ flatOut' = to_flat(tree)
    /\ tpc' = "flattened"
    /\ UNCHANGED <<dfns, tree, itree>>
    /\ UNCHANGED notTree

InferTree ==
    /\ tpc = "start"
    /\ itree' = infer_tree(dfns)
    /\ tpc' = "inferred"
    /\ UNCHANGED <<dfns, tree, flatOut>>
    /\ UNCHANGED notTree

NextTree == ToTree \/ ToFlat \/ InferTree

SpecTree == InitTree /\ [][NextTree]_vars

(***************************************************************************)
(* Fields and shapes.                                                      *)
(*                                                                         *)
(* A shape string "(a, b)" is kept as the pieces that                      *)
(* shape[1:-1].split(",") yields: each piece is a dimension name with the  *)
(* number of blanks in front of it (", ".join puts one blank in front of   *)
(* every piece but the first; split(",") does not strip it).  set = FALSE  *)
(* is None; set = TRUE with no piece is the empty string.                  *)
(***************************************************************************)
NoShape == [set |-> FALSE, dims |-> <<>>]
EmptyShape == [set |-> TRUE, dims |-> <<>>]
Piece(n, d) == [sp |-> n, dim |-> d]
Dims(ps) == [set |-> TRUE, dims |-> ps]

\* the text of a piece equals the text "maxbound"
IsMaxbound(p) == p.sp = 0 /\ p.dim = "maxbound"

\* truthiness of a shape attribute
Truthy(shape) == shape.set /\ shape.dims # <<>>

\* f"({', '.join(new_dims)})", read back by [1:-1].split(",")
JoinCommaSpace(ps) ==
    [i \in 1..Len(ps) |-> IF i = 1 THEN ps[i] ELSE Piece(ps[i].sp + 1, ps[i].dim)]

\* a v2 field; children is the ordered name -> Field mapping (<<>> for None)
\* a default: None, the text of the definition file, or what that text
\* evaluates to
NoDefault == [kind |-> "none", text |-> ""]
StrVal(text) == [kind |-> "str", text |-> text]
IntVal(text) == [kind |-> "int", text |-> text]
BoolVal(text) == [kind |-> "bool", text |-> text]
WithDefault(f, d) == [f EXCEPT !.default = d]

FieldV2(name, type, block, shape, children) ==
    [name |-> name, type |-> type, block |-> block, shape |-> shape,
     children |-> children, default |-> NoDefault]

Names(fs) == {fs[i].name : i \in 1..Len(fs)}
Index(fs, name) == CHOOSE i \in 1..Len(fs) : fs[i].name = name
Pop(fs, name) == SelectSeq(fs, LAMBDA f : f.name # name)

\* d[f.name] = f on an ordered dict
Put(fs, f) ==
    IF f.name \in Names(fs)
    THEN [fs EXCEPT ![Index(fs, f.name)] = f]
    ELSE Append(fs, f)

RECURSIVE PutAll(_, _)
PutAll(fs, new) ==
    IF new = <<>> THEN fs ELSE PutAll(Put(fs, Head(new)), Tail(new))

(***************************************************************************)
(* MapV1To2.map_period_block                                               *)
(***************************************************************************)
PeriodResult(e, b) == [err |-> e, block |-> b]

\* the new shape of one column
new_shape(column, cellid) ==
    LET old_dims == IF Truthy(column.shape) THEN column.shape.dims ELSE <<>>
        new_dims == <<Piece(0, "nper")>>
                    \o (IF cellid THEN <<Piece(0, "nnodes")>> ELSE <<>>)
                    \o SelectSeq(old_dims, LAMBDA d : ~IsMaxbound(d))
    IN Dims(JoinCommaSpace(new_dims))

Reshaped(columns, cellid) ==
    [i \in 1..Len(columns) |->
        [columns[i] EXCEPT !.shape = new_shape(columns[i], cellid)]]

map_period_block(block) ==
    IF block = <<>> THEN PeriodResult("IndexError", <<>>)
    ELSE IF block[1].type = "recarray"
    THEN IF Len(block) # 1 THEN PeriodResult("AssertionError", <<>>)
         ELSE IF block[1].children = <<>> THEN PeriodResult("StopIteration", <<>>)
         ELSE LET item == block[1].children[1]
                  cellid == "cellid" \in Names(item.children)
                  columns == Pop(item.children, "cellid")
              IN PeriodResult("",
                     PutAll(Pop(block, block[1].name), Reshaped(columns, cellid)))
    ELSE LET cellid == "cellid" \in Names(block)
             columns == Pop(block, "cellid")
         IN PeriodResult("", PutAll(columns, Reshaped(columns, cellid)))

(***************************************************************************)
(* Period blocks tried: a recarray over a row of columns, the same columns *)
(* as top-level fields, or a recarray followed by another field.           *)
(***************************************************************************)
DimNames == {"maxbound", "naux"}

RECURSIVE ShapesOfLen(_)
ShapesOfLen(n) ==
    IF n = 0 THEN {<<>>}
    ELSE {Append(ps, Piece(sp, d)) :
            ps \in ShapesOfLen(n - 1),
            sp \in (IF n = 1 THEN {0} ELSE {0, 1}),
            d \in DimNames}

V1Shapes == {NoShape} \cup {Dims(ps) : ps \in UNION {ShapesOfLen(n) : n \in 1..MaxDims}}

CellidCol == FieldV2("cellid", "integer", "period", Dims(<<Piece(0, "ncelldim")>>), <<>>)
QCol(sh) == FieldV2("q", "double precision", "period", sh, <<>>)
AuxCol(sh) == FieldV2("aux", "double precision", "period", sh, <<>>)

ColumnSeqs ==
    {c \o <<QCol(qs)>> \o a :
        c \in {<<>>, <<CellidCol>>},
        qs \in V1Shapes,
        a \in {<<>>} \cup {<<AuxCol(sh)>> : sh \in V1Shapes}}

Recarray(columns) ==
    FieldV2("stress_period_data", "recarray", "period", Dims(<<Piece(0, "maxbound")>>),
            <<FieldV2("stress_period_data", "record", "period", NoShape, columns)>>)

PeriodBlocks ==
    {<<Recarray(cols)>> : cols \in ColumnSeqs}
    \cup ColumnSeqs
    \cup {<<Recarray(cols)>> \o cols : cols \in {<<QCol(NoShape)>>}}

InitPeriod ==
    /\ ppc = 0
    /\ pin \in PeriodBlocks
    /\ pprev = pin
    /\ pout = PeriodResult("", pin)
    /\ TreeIdle
    /\ MapIdle
    /\ StrictIdle
    /\ ParseIdle
    /\ CodecIdle
    /\ DocIdle
    /\ RegIdle

ApplyPeriod ==
    /\ ppc < MaxApply
    /\ pout.err = ""
    /\ pprev' = pout.block
    /\ pout' = map_period_block(pout.block)
    /\ ppc' = ppc + 1
    /\ UNCHANGED pin
    /\ UNCHANGED notPeriod

NextPeriod == ApplyPeriod

SpecPeriod == InitPeriod /\ [][NextPeriod]_vars

(***************************************************************************)
(* v1 fields and the v1 -> v2 migration (MapV1To2).                        *)
(*                                                                         *)
(* A v1 type string is its first word (head) and the words after it        *)
(* (names = _type.split()[1:]); a scalar type such as "double precision"   *)
(* is a head with no names.                                                *)
(***************************************************************************)
SCALAR_TYPES == {"keyword", "integer", "double precision", "string"}

Type(head, names) == [head |-> head, names |-> names]

FieldV1(name, type, block, shape, in_record) ==
    [name |-> name, type |-> type, block |-> block, shape |-> shape,
     in_record |-> in_record, default |-> NoDefault]

\* parse.try_parse_bool
try_parse_bool(v) ==
    IF v.kind = "str" /\ v.text \in {"true", "false"} THEN BoolVal(v.text) ELSE v

\* misc.try_literal_eval: the value of the text when it is a literal, the
\* argument itself otherwise
try_literal_eval(v) ==
    IF v.kind = "str" /\ v.text \in {"0", "1"} THEN IntVal(v.text) ELSE v

\* the default of the field _map_field builds: the one computed from
\* field_dict.pop("default_value", None), overridden by field_dict's own
\* "default" entry, which the last **field_dict brings along
Default(f) ==
    LET popped == NoDefault
        default == IF f.type.head # "string" THEN try_literal_eval(popped) ELSE popped
        field_dict == [default |-> try_parse_bool(f.default)]
    IN IF "default" \in DOMAIN field_dict THEN field_dict.default ELSE default

NoField == FieldV2("", "None", "", NoShape, <<>>)
Res(e, v) == [err |-> e, val |-> v]
Vals(e, vs) == [err |-> e, vals |-> vs]

\* block_sort_key
block_sort_key(k) ==
    IF k = "options" THEN 0
    ELSE IF k = "dimensions" THEN 1
    ELSE IF k = "griddata" THEN 2
    ELSE IF k = "packagedata" THEN 3
    ELSE IF k \in {"period", "perioddata"} THEN 4
    ELSE 5

RECURSIVE SortedFrom(_, _)
SortedFrom(blocks, k) ==
    IF k > 5 THEN <<>>
    ELSE SelectSeq(blocks, LAMBDA b : block_sort_key(b.name) = k)
         \o SortedFrom(blocks, k + 1)

\* Dfn.__post_init__: dict(sorted(self.blocks.items(), key=block_sort_key))
SortBlocks(blocks) == SortedFrom(blocks, 0)

Block(name, fields) == [name |-> name, fields |-> fields]

Dfn(version, blocks) ==
    [name |-> "gwf-wel", schema_version |-> version, parent |-> "gwf-nam",
     advanced |-> FALSE, multi |-> TRUE, blocks |-> SortBlocks(blocks)]

NoDfn == [name |-> "", schema_version |-> 0, parent |-> "", advanced |-> FALSE,
          multi |-> FALSE, blocks |-> <<>>]

\* {key(x): group for key(x), group in groupby(fs, key)} with key = the block
\* attribute: runs of equal block, a later run of a block replacing an earlier
RECURSIVE GroupAcc(_, _, _)
GroupAcc(fs, acc, last) ==
    IF fs = <<>> THEN acc
    ELSE LET f == Head(fs)
         IN IF acc # <<>> /\ f.block = last
            THEN LET i == Index(acc, last)
                 IN GroupAcc(Tail(fs),
                             [acc EXCEPT ![i].fields = Put(acc[i].fields, f)],
                             last)
            ELSE GroupAcc(Tail(fs), Put(acc, Block(f.block, <<f>>)), f.block)

GroupByBlock(fs) == GroupAcc(fs, <<>>, "")

\* OMD.values(): one value for each name, at the place of the name's first
\* entry, and the value is that of the name's last entry
OMDValues(fs) ==
    LET last(name) == fs[CHOOSE i \in 1..Len(fs) :
                            /\ fs[i].name = name
                            /\ \A j \in (i + 1)..Len(fs) : fs[j].name # name]
        marked == [i \in 1..Len(fs) |->
                     [first |-> \A j \in 1..(i - 1) : fs[j].name # fs[i].name,
                      val |-> last(fs[i].name)]]
        kept == SelectSeq(marked, LAMBDA m : m.first)
    IN [i \in 1..Len(kept) |-> kept[i].val]

\* load(f, format="dfn"): the v1 Dfn of the parsed attribute records
load(fields) == Dfn(1, GroupByBlock(OMDValues(fields)))

RECURSIVE Concat(_)
Concat(blocks) ==
    IF blocks = <<>> THEN <<>> ELSE Head(blocks).fields \o Concat(Tail(blocks))

\* Dfn.fields: the fields of all blocks, in block order
Fields(dfn) == Concat(dfn.blocks)

InNames(n, names) == \E i \in 1..Len(names) : names[i] = n

\* the siblings a composite names: f.name in names and f.in_record
Named(all, names) ==
    SelectSeq(all, LAMBDA f : InNames(f.name, names) /\ f.in_record)

\* next(iter(fields.getlist(name)))
FirstNamed(all, name) == all[CHOOSE i \in 1..Len(all) :
                               /\ all[i].name = name
                               /\ \A j \in 1..(i - 1) : all[j].name # name]

RECURSIVE map_field(_, _, _)
RECURSIVE MapEach(_, _, _, _)

\* {f.name: map_field(dfn, f) for f in fs}; the first exception ends it
MapEach(all, fs, fuel, acc) ==
    IF fs = <<>> THEN Vals("", acc)
    ELSE LET r == map_field(all, Head(fs), fuel)
         IN IF r.err # "" THEN Vals(r.err, <<>>)
            ELSE MapEach(all, Tail(fs), fuel, Put(acc, r.val))

\* a _union_fields that takes every named field, in a record or not
_union_fields_AnyNamed(all, f, fuel) ==
    MapEach(all, SelectSeq(all, LAMBDA g : InNames(g.name, f.type.names)), fuel, <<>>)

\* map_field._map_field._union_fields
_union_fields(all, f, fuel) == MapEach(all, Named(all, f.type.names), fuel, <<>>)

\* a _record_fields that hands the named v1 fields on as they are
_record_fields_Unmapped(all, f, fuel) ==
    Vals("", SelectSeq(Named(all, f.type.names), LAMBDA g : g.type.head # "record"))

\* map_field._map_field._record_fields
_record_fields(all, f, fuel) ==
    MapEach(all,
            SelectSeq(Named(all, f.type.names), LAMBDA g : g.type.head # "record"),
            fuel, <<>>)

\* map_field._map_field._row_field
_row_field(all, f, fuel) ==
    LET item_names == f.type.names
        items == Named(all, item_names)
        item_types == [i \in 1..Len(items) |-> items[i].type.head]
    IN IF Len(item_names) < 1 THEN Res("ValueError: missing list definition", NoField)
       ELSE IF Len(item_names) = 1 /\ item_types = <<>>
            THEN Res("IndexError", NoField)
       ELSE IF Len(item_names) = 1 /\ item_types[1] \in {"record", "keystring"}
            THEN map_field(all, FirstNamed(all, item_names[1]), fuel)
       ELSE IF \A i \in 1..Len(item_types) : item_types[i] \in SCALAR_TYPES
            THEN LET c == _record_fields(all, f, fuel)
                 IN IF c.err # "" THEN Res(c.err, NoField)
                    ELSE Res("", WithDefault(FieldV2(f.name, "record", f.block,
                                                     NoShape, c.vals),
                                             try_parse_bool(f.default)))
       ELSE LET c == MapEach(all, items, fuel, <<>>)
            IN IF c.err # "" THEN Res(c.err, NoField)
               ELSE LET first == c.vals[1]
                        single == Len(c.vals) = 1
                        item_type == IF single /\ first.type = "keystring"
                                     THEN "keystring" ELSE "record"
                    IN \* **field_dict comes last and carries children = None
                       Res("", WithDefault(FieldV2(IF single THEN first.name ELSE f.name,
                                                   item_type, f.block, NoShape, <<>>),
                                           try_parse_bool(f.default)))

\* a map_field that lets any typed field carry a shape
map_field_NoArrayCheck(all, f, fuel) ==
    IF fuel = 0 THEN Res("RecursionError", NoField)
    ELSE LET shape == IF f.shape = EmptyShape THEN NoShape ELSE f.shape
             _field == WithDefault(FieldV2(f.name, "None", f.block, shape, <<>>),
                                   Default(f))
         IN IF f.type.head = "recarray"
            THEN LET child == _row_field(all, f, fuel - 1)
                 IN IF child.err # "" THEN child
                    ELSE Res("", [_field EXCEPT !.children = <<child.val>>,
                                               !.type = "recarray"])
            ELSE IF f.type.head = "keystring"
            THEN LET c == _union_fields(all, f, fuel - 1)
                 IN IF c.err # "" THEN Res(c.err, NoField)
                    ELSE Res("", [_field EXCEPT !.children = c.vals,
                                               !.type = "keystring"])
            ELSE IF f.type.head = "record"
            THEN LET c == _record_fields(all, f, fuel - 1)
                 IN IF c.err # "" THEN Res(c.err, NoField)
                    ELSE Res("", [_field EXCEPT !.children = c.vals,
                                               !.type = "record"])
            ELSE Res("", [_field EXCEPT !.type = f.type.head])

\* MapV1To2.map_field (and its _map_field).  fuel is the depth left: a chain
\* of nested resolutions longer than the number of fields revisits a field,
\* where Python's recursion does not return.
map_field(all, f, fuel) ==
    IF fuel = 0 THEN Res("RecursionError", NoField)
    ELSE LET shape == IF f.shape = EmptyShape THEN NoShape ELSE f.shape
             _field == WithDefault(FieldV2(f.name, "None", f.block, shape, <<>>),
                                   Default(f))
         IN IF f.type.head = "recarray"
            THEN LET child == _row_field(all, f, fuel - 1)
                 IN IF child.err # "" THEN child
                    ELSE Res("", [_field EXCEPT !.children = <<child.val>>,
                                               !.type = "recarray"])
            ELSE IF f.type.head = "keystring"
            THEN LET c == _union_fields(all, f, fuel - 1)
                 IN IF c.err # "" THEN Res(c.err, NoField)
                    ELSE Res("", [_field EXCEPT !.children = c.vals,
                                               !.type = "keystring"])
            ELSE IF f.type.head = "record"
            THEN LET c == _record_fields(all, f, fuel - 1)
                 IN IF c.err # "" THEN Res(c.err, NoField)
                    ELSE Res("", [_field EXCEPT !.children = c.vals,
                                               !.type = "record"])
            ELSE IF shape.set /\ f.type.head \notin SCALAR_TYPES
            THEN Res("TypeError: unsupported array type", NoField)
            ELSE Res("", [_field EXCEPT !.type = f.type.head])

MapResult(e, d) == [err |-> e, dfn |-> d]

\* a map_blocks that leaves out the fields that do not resolve
RECURSIVE MapEachSkipping(_, _, _, _)
MapEachSkipping(all, fs, fuel, acc) ==
    IF fs = <<>> THEN Vals("", acc)
    ELSE LET r == map_field(all, Head(fs), fuel)
         IN MapEachSkipping(all, Tail(fs), fuel,
                            IF r.err # "" THEN acc ELSE Put(acc, r.val))

map_blocks_Partial(dfn) ==
    LET all == Fields(dfn)
        top == SelectSeq(all, LAMBDA f : ~f.in_record)
        fields == MapEachSkipping(all, top, Len(all) + 1, <<>>)
    IN Vals("", SelectSeq(GroupByBlock(fields.vals), LAMBDA b : b.name # "period"))

\* MapV1To2.map_blocks
map_blocks(dfn) ==
    LET all == Fields(dfn)
        top == SelectSeq(all, LAMBDA f : ~f.in_record)
        fields == MapEach(all, top, Len(all) + 1, <<>>)
    IN IF fields.err # "" THEN Vals(fields.err, <<>>)
       ELSE LET block_dicts == GroupByBlock(fields.vals)
                others == SelectSeq(block_dicts, LAMBDA b : b.name # "period")
            IN IF "period" \in Names(block_dicts)
               THEN LET p == map_period_block(
                                 block_dicts[Index(block_dicts, "period")].fields)
                    IN IF p.err # "" THEN Vals(p.err, <<>>)
                       ELSE Vals("", <<Block("period", p.block)>> \o others)
               ELSE Vals("", others)

\* a map without the early return for a version-2 component: map_blocks then
\* reads in_record, which a v2 field does not have
map_NoEarlyReturn(dfn) ==
    IF dfn.schema_version = 2 THEN MapResult("AttributeError: in_record", NoDfn)
    ELSE LET b == map_blocks(dfn)
         IN IF b.err # "" THEN MapResult(b.err, NoDfn)
            ELSE MapResult("", [dfn EXCEPT !.schema_version = 2,
                                           !.blocks = SortBlocks(b.vals)])

\* MapV1To2.map, reached through map(dfn, schema_version="2")
map(dfn) ==
    IF dfn.schema_version = 2 THEN MapResult("", dfn)
    ELSE LET b == map_blocks(dfn)
         IN IF b.err # "" THEN MapResult(b.err, NoDfn)
            ELSE MapResult("", [dfn EXCEPT !.schema_version = 2,
                                           !.blocks = SortBlocks(b.vals)])

\* Ref: a file path field (key) of a referring component and the component
\* it refers to (tgt)
Ref(key, tgt) == [key |-> key, tgt |-> tgt]

\* the refs of the components loaded so far (Dfn.ref)
Refs == {Ref("ts_filerecord", "utl-ts")}

(***************************************************************************)
(* Definition files tried: up to MaxFields attribute records drawn from    *)
(* V1Fields.                                                               *)
(***************************************************************************)
Maxbound == Dims(<<Piece(0, "maxbound")>>)

V1Fields == {
    \* period block: a table and what it can name
    FieldV1("spd", Type("recarray", <<"cellid", "q">>), "period", Maxbound, FALSE),
    FieldV1("spd", Type("recarray", <<"rec">>), "period", NoShape, FALSE),
    FieldV1("spd", Type("recarray", <<>>), "period", NoShape, FALSE),
    FieldV1("spd", Type("recarray", <<"ghost", "q">>), "period", NoShape, FALSE),
    FieldV1("rec", Type("record", <<"cellid", "q">>), "period", NoShape, TRUE),
    FieldV1("rec", Type("keystring", <<"q">>), "period", NoShape, TRUE),
    FieldV1("cellid", Type("integer", <<>>), "period", Dims(<<Piece(0, "ncelldim")>>), TRUE),
    FieldV1("q", Type("double precision", <<>>), "period", Maxbound, TRUE),
    FieldV1("q", Type("float", <<>>), "period", Maxbound, TRUE),
    FieldV1("flag", Type("float", <<>>), "period", NoShape, FALSE),
    \* perioddata block (sim-tdis): a table
    FieldV1("pd", Type("recarray", <<"q">>), "perioddata", NoShape, FALSE),
    \* options block
    FieldV1("save", Type("keyword", <<>>), "options", EmptyShape, FALSE),
    FieldV1("flag", Type("keyword", <<>>), "options", NoShape, FALSE),
    FieldV1("arr", Type("double precision", <<>>), "options", Dims(<<Piece(0, "naux")>>), FALSE),
    FieldV1("arr", Type("float", <<>>), "options", Dims(<<Piece(0, "naux")>>), FALSE),
    FieldV1("orec", Type("record", <<"q">>), "options", NoShape, FALSE),
    FieldV1("orec", Type("record", <<>>), "options", NoShape, FALSE),
    FieldV1("oks", Type("keystring", <<"ghost">>), "options", NoShape, FALSE),
    FieldV1("olist", Type("recarray", <<"q">>), "options", Maxbound, FALSE),
    FieldV1("otab", Type("recarray", <<"rec", "q">>), "options", NoShape, FALSE),
    FieldV1("okq", Type("keystring", <<"q", "save">>), "options", NoShape, FALSE),
    FieldV1("orq", Type("record", <<"rec", "q">>), "options", NoShape, FALSE),
    \* the file path record through which a component refers to utl-ts
    FieldV1("ts_filerecord", Type("record", <<"ts6_filename">>), "options", NoShape, FALSE),
    \* fields with a default_value line
    WithDefault(FieldV1("nlay", Type("integer", <<>>), "options", NoShape, FALSE), StrVal("1")),
    WithDefault(FieldV1("fname", Type("string", <<>>), "options", NoShape, FALSE), StrVal("1"))
}

RECURSIVE FieldSeqs(_)
FieldSeqs(n) ==
    IF n = 0 THEN {<<>>}
    ELSE LET shorter == FieldSeqs(n - 1)
         IN shorter \cup {Append(fs, f) : fs \in {x \in shorter : Len(x) = n - 1},
                                         f \in V1Fields}

InitMap ==
    /\ mpc = "parsed"
    /\ parsed \in FieldSeqs(MaxFields)
    /\ mdfn = NoDfn
    /\ mout = MapResult("", NoDfn)
    /\ TreeIdle
    /\ PeriodIdle
    /\ StrictIdle
    /\ ParseIdle
    /\ CodecIdle
    /\ DocIdle
    /\ RegIdle

\* dfn2toml.convert: load(f, name=..., format="dfn")
Load ==
    /\ mpc = "parsed"
    /\ mdfn' = load(parsed)
    /\ mpc' = "loaded"
    /\ UNCHANGED <<parsed, mout>>
    /\ UNCHANGED notMap

\* dfn2toml.convert: map(dfn, schema_version="2") on a loaded Dfn
Map ==
    /\ mpc = "loaded"
    /\ mout' = map(mdfn)
    /\ mpc' = "mapped"
    /\ UNCHANGED <<parsed, mdfn>>
    /\ UNCHANGED notMap

\* map(dfn, schema_version="2") on the Dfn a migration returned
MapAgain ==
    /\ mpc = "mapped"
    /\ mout.err = ""
    /\ mdfn' = mout.dfn
    /\ mout' = map(mout.dfn)
    /\ mpc' = "remapped"
    /\ UNCHANGED parsed
    /\ UNCHANGED notMap

NextMap == Load \/ Map \/ MapAgain

SpecMap == InitMap /\ [][NextMap]_vars

(***************************************************************************)
(* Strict / non-strict deserialisation.                                    *)
(*                                                                         *)
(* A dict is modelled by the set of its keys: a field dict is              *)
(* [keys, children], children being the dicts under its "children" key     *)
(* (none: no such key); a component dict is [version, keys, fields],       *)
(* version being what sits under "schema_version" and fields the field     *)
(* dicts of its one block (none: no "blocks" key).                         *)
(***************************************************************************)
DfnKeys == {"schema_version", "name", "parent", "advanced", "multi", "ref",
            "blocks", "children"}
FieldKeys == {"name", "type", "block", "default", "longname", "description",
              "children", "optional", "developmode", "reader", "shape", "valid"}
FieldV1Keys == {"valid", "reader", "tagged", "in_record", "layered",
                "preserve_case", "numeric_index", "deprecated", "removed",
                "mf6internal", "netcdf", "block_variable", "just_data"}
FieldV2Keys == {}

OwnKeys(cls) == IF cls = "FieldV1" THEN FieldV1Keys ELSE FieldV2Keys

UnrecognizedDfn == "ValueError: Unrecognized keys in DFN data"
UnrecognizedField == "ValueError: Unrecognized keys in field data"
MissingArgument == "TypeError: missing required argument"

FieldDict(keys, children) == [keys |-> keys, children |-> children]
FieldKeysOf(fd) == fd.keys \cup (IF fd.children # <<>> THEN {"children"} ELSE {})
FieldObj(err, cls, keys, children) ==
    [err |-> err, cls |-> cls, keys |-> keys, children |-> children]
NoFieldObj(err) == FieldObj(err, "", {}, <<>>)

DfnDict(version, keys, fields) == [version |-> version, keys |-> keys, fields |-> fields]
DfnKeysOf(d) ==
    d.keys \cup (IF d.version # "absent" THEN {"schema_version"} ELSE {})
           \cup (IF d.fields # <<>> THEN {"blocks"} ELSE {})
DfnObj(err, version, keys, fields) ==
    [err |-> err, schema_version |-> version, keys |-> keys, fields |-> fields]
NoDfnObj(err) == DfnObj(err, "", {}, <<>>)

\* FieldV1.from_dict / FieldV2.from_dict
Field_from_dict(cls, fd, strict) ==
    LET keys == OwnKeys(cls) \cup FieldKeys
    IN IF strict /\ FieldKeysOf(fd) \ keys # {} THEN NoFieldObj(UnrecognizedField)
       ELSE IF "name" \notin fd.keys THEN NoFieldObj(MissingArgument)
       ELSE FieldObj("", cls, FieldKeysOf(fd) \cap keys, fd.children)

\* the field class Dfn.from_dict picks: a Version object equal to Version("1")
\* picks FieldV1; the string "1" does not compare equal to a Version
field_cls(d) == IF d.version = "Version1" THEN "FieldV1" ELSE "FieldV2"

\* Dfn.from_dict._fields: the first field that fails ends the loop
RECURSIVE _fields(_, _, _, _)
_fields(cls, fds, strict, acc) ==
    IF fds = <<>> THEN [err |-> "", vals |-> acc]
    ELSE LET r == Field_from_dict(cls, Head(fds), strict)
         IN IF r.err # "" THEN [err |-> r.err, vals |-> <<>>]
            ELSE _fields(cls, Tail(fds), strict, Append(acc, r))

\* Dfn.__post_init__: Version(str(schema_version))
AsVersion(v) == IF v = "str1" THEN "Version1" ELSE v

\* Dfn.from_dict
Dfn_from_dict(d, strict) ==
    IF strict /\ DfnKeysOf(d) \ DfnKeys # {} THEN NoDfnObj(UnrecognizedDfn)
    ELSE LET data == DfnKeysOf(d) \cap DfnKeys
             schema_version == IF d.version = "absent" THEN "Version2" ELSE d.version
             fs == _fields(field_cls(d), d.fields, strict, <<>>)
         IN IF d.fields # <<>> /\ fs.err # "" THEN NoDfnObj(fs.err)
            ELSE IF "name" \notin data THEN NoDfnObj(MissingArgument)
            ELSE IF d.fields = <<>> /\ d.version = "absent" THEN NoDfnObj(MissingArgument)
            ELSE DfnObj("", AsVersion(schema_version),
                        data \cup (IF d.fields # <<>> THEN {"schema_version"} ELSE {}),
                        fs.vals)

(***************************************************************************)
(* Dicts tried.                                                            *)
(***************************************************************************)
ChildDicts == {FieldDict(k, <<>>) : k \in {{"name"}, {"name", "extra_key"}}}
ChildSeqs == {<<>>} \cup {<<c>> : c \in ChildDicts}
FieldDicts == {FieldDict(k, c) : k \in SUBSET {"name", "in_record", "extra_key"},
                                 c \in ChildSeqs}

RECURSIVE DictSeqs(_)
DictSeqs(n) ==
    IF n = 0 THEN {<<>>}
    ELSE LET shorter == DictSeqs(n - 1)
         IN shorter \cup {Append(fs, f) : fs \in {x \in shorter : Len(x) = n - 1},
                                          f \in FieldDicts}

Versions == {"absent", "Version1", "Version2", "str1"}
DfnDicts == {DfnDict(v, k, fs) : v \in Versions,
                                 k \in SUBSET {"name", "extra_key"},
                                 fs \in DictSeqs(MaxBlockFields)}

InitStrict ==
    /\ spc = "given"
    /\ sd \in DfnDicts
    /\ sstrict \in BOOLEAN
    /\ sdfn = NoDfnObj("")
    /\ sfld = NoFieldObj("")
    /\ TreeIdle
    /\ PeriodIdle
    /\ MapIdle
    /\ ParseIdle
    /\ CodecIdle
    /\ DocIdle
    /\ RegIdle

\* Dfn.from_dict(sd, strict=sstrict)
DfnFromDict ==
    /\ spc = "given"
    /\ sdfn' = Dfn_from_dict(sd, sstrict)
    /\ spc' = "dfn"
    /\ UNCHANGED <<sd, sstrict, sfld>>
    /\ UNCHANGED notStrict

\* FieldV1.from_dict on the first field dict of sd
FieldV1FromDict ==
    /\ spc = "given"
    /\ sd.fields # <<>>
    /\ sfld' = Field_from_dict("FieldV1", sd.fields[1], sstrict)
    /\ spc' = "fieldv1"
    /\ UNCHANGED <<sd, sstrict, sdfn>>
    /\ UNCHANGED notStrict

\* FieldV2.from_dict on the first field dict of sd
FieldV2FromDict ==
    /\ spc = "given"
    /\ sd.fields # <<>>
    /\ sfld' = Field_from_dict("FieldV2", sd.fields[1], sstrict)
    /\ spc' = "fieldv2"
    /\ UNCHANGED <<sd, sstrict, sdfn>>
    /\ UNCHANGED notStrict

NextStrict == DfnFromDict \/ FieldV1FromDict \/ FieldV2FromDict

SpecStrict == InitStrict /\ [][NextStrict]_vars

(***************************************************************************)
(* The field-level parser (parse_dfn).                                     *)
(*                                                                         *)
(* A line is a comment (its words after "#"), a blank line, or an          *)
(* attribute line: key, then the value after the first blank.  A value is  *)
(* its text (a sequence of tokens) and, when the text holds a REPLACE      *)
(* directive, the directive's key and the text of its literal mapping.     *)
(***************************************************************************)
Value(text, rkey, subs, arg) == [text |-> text, rkey |-> rkey, subs |-> subs, arg |-> arg]
NoValue == Value(<<>>, "", "", "")

Line(kind, words, key, value) ==
    [kind |-> kind, words |-> words, key |-> key, value |-> value]
Blank == Line("blank", <<>>, "", NoValue)
Comment(words) == Line("comment", words, "", NoValue)
Attr(key, value) == Line("attr", <<>>, key, value)

\* the common variable definitions given to parse_dfn
common == [auxnames |-> <<"names", "of", "{#1}", "variables">>]

SyntaxError == "SyntaxError: malformed literal"
KeyErrorName == "KeyError: 'name'"

\* ast.literal_eval on the mapping texts tried
literal_eval(subs) ==
    IF subs = "{}" THEN [err |-> "", keys |-> {}, arg |-> ""]
    ELSE IF subs = "{'{#1}': 'well'}" THEN [err |-> "", keys |-> {"{#1}"}, arg |-> "well"]
    ELSE [err |-> SyntaxError, keys |-> {}, arg |-> ""]

\* value.replace("\\", "").replace("``", "'").replace("''", "'")
Clean(text) ==
    LET kept == SelectSeq(text, LAMBDA t : t # "\\")
    IN [i \in 1..Len(kept) |-> IF kept[i] \in {"``", "''"} THEN "'" ELSE kept[i]]

\* words after the first occurrence of w (str.partition), <<>> when absent
Has(words, w) == \E i \in 1..Len(words) : words[i] = w
TailAfter(words, w) ==
    LET i == CHOOSE k \in 1..Len(words) :
                 words[k] = w /\ \A j \in 1..(k - 1) : words[j] # w
    IN SubSeq(words, i + 1, Len(words))

\* the metadata a comment line adds
MetaOf(words) ==
    (IF Has(words, "flopy")
        /\ \E k \in {"multi-package", "solution_package", "subpackage", "parent"} :
              Has(TailAfter(words, "flopy"), k)
     THEN <<TailAfter(words, "flopy")>> ELSE <<>>)
    \o (IF Has(words, "package-type")
        THEN <<(<<"package-type">> \o TailAfter(words, "package-type"))>> ELSE <<>>)

\* the description stored for a description attribute, or the exception
Described(value) ==
    LET descr == Value(Clean(value.text), value.rkey, value.subs, "")
    IN IF value.rkey = "" THEN [err |-> "", descr |-> descr]
       ELSE LET subs == literal_eval(value.subs)
            IN IF subs.err # "" THEN [err |-> subs.err, descr |-> NoValue]
               ELSE IF value.rkey \notin DOMAIN common
                    THEN [err |-> "", descr |-> descr]
               ELSE [err |-> "",
                     descr |-> Value(common[value.rkey], "", "",
                                     IF subs.keys # {} THEN subs.arg ELSE "")]

\* a save into a plain dict, where a later field replaces an earlier one of
\* the same name
Saved_Replacing(fs, f) ==
    IF "name" \in DOMAIN f
    THEN [err |-> "",
          fields |-> Append(SelectSeq(fs, LAMBDA e : e[1] # f["name"]), <<f["name"], f>>)]
    ELSE [err |-> "KeyError: 'name'", fields |-> fs]

\* fields.append((field["name"], field))
Saved(fs, f) ==
    IF "name" \in DOMAIN f THEN [err |-> "", fields |-> Append(fs, <<f["name"], f>>)]
    ELSE [err |-> KeyErrorName, fields |-> fs]

NoAttrs == [k \in {} |-> NoValue]

(***************************************************************************)
(* Files tried.                                                            *)
(***************************************************************************)
Text(words) == Value(words, "", "", "")
FileLines == {
    Blank,
    Comment(<<"comment">>),
    Comment(<<"flopy", "multi-package">>),
    Comment(<<"package-type", "advanced">>),
    Attr("name", Text(<<"q">>)),
    Attr("name", Text(<<"aux">>)),
    Attr("default_value", Text(<<"1">>)),
    Attr("description", Text(<<"a", "\\", "``rate''">>)),
    Attr("description", Value(<<"REPLACE">>, "auxnames", "{'{#1}': 'well'}", "")),
    Attr("description", Value(<<"REPLACE">>, "nosuch", "{}", "")),
    Attr("description", Value(<<"REPLACE">>, "auxnames", "{'{#1}': ", ""))
}

RECURSIVE LineSeqs(_)
LineSeqs(n) ==
    IF n = 0 THEN {<<>>}
    ELSE LET shorter == LineSeqs(n - 1)
         IN shorter \cup {Append(ls, l) : ls \in {x \in shorter : Len(x) = n - 1},
                                          l \in FileLines}

InitParse ==
    /\ lpc = "reading"
    /\ lines \in LineSeqs(MaxLines)
    /\ lpos = 1
    /\ lfield = NoAttrs
    /\ lfields = <<>>
    /\ lmeta = <<>>
    /\ lerr = ""
    /\ TreeIdle
    /\ PeriodIdle
    /\ MapIdle
    /\ StrictIdle
    /\ CodecIdle
    /\ DocIdle
    /\ RegIdle

\* parse_dfn, loop body: a line starting with "#"
ParseMetadata ==
    /\ lpc = "reading"
    /\ lpos <= Len(lines)
    /\ lines[lpos].kind = "comment"
    /\ lmeta' = lmeta \o MetaOf(lines[lpos].words)
    /\ lpos' = lpos + 1
    /\ UNCHANGED <<lpc, lines, lfield, lfields, lerr>>
    /\ UNCHANGED notParse

\* parse_dfn, loop body: an empty line ends the current field
EndField ==
    /\ lpc = "reading"
    /\ lpos <= Len(lines)
    /\ lines[lpos].kind = "blank"
    /\ IF lfield = NoAttrs
       THEN UNCHANGED <<lpc, lfield, lfields, lerr>>
       ELSE LET r == Saved(lfields, lfield)
            IN /\ lfields' = r.fields
               /\ lerr' = r.err
               /\ lpc' = IF r.err = "" THEN "reading" ELSE "raised"
               /\ lfield' = IF r.err = "" THEN NoAttrs ELSE lfield
    /\ lpos' = lpos + 1
    /\ UNCHANGED <<lines, lmeta>>
    /\ UNCHANGED notParse

\* parse_dfn, loop body: an attribute line
ParseAttribute ==
    /\ lpc = "reading"
    /\ lpos <= Len(lines)
    /\ lines[lpos].kind = "attr"
    /\ LET key == IF lines[lpos].key = "default_value" THEN "default"
                  ELSE lines[lpos].key
           d == Described(lines[lpos].value)
           set == (key :> lines[lpos].value) @@ lfield
       IN IF key # "description"
          THEN lfield' = set /\ UNCHANGED <<lpc, lerr>>
          ELSE IF d.err # ""
               THEN lfield' = set /\ lerr' = d.err /\ lpc' = "raised"
               ELSE lfield' = ("description" :> d.descr) @@ lfield
                    /\ UNCHANGED <<lpc, lerr>>
    /\ lpos' = lpos + 1
    /\ UNCHANGED <<lines, lfields, lmeta>>
    /\ UNCHANGED notParse

\* parse_dfn, after the loop: save the last field and return
Return ==
    /\ lpc = "reading"
    /\ lpos > Len(lines)
    /\ IF lfield = NoAttrs
       THEN lpc' = "returned" /\ UNCHANGED <<lfields, lerr>>
       ELSE LET r == Saved(lfields, lfield)
            IN /\ lfields' = r.fields
               /\ lerr' = r.err
               /\ lpc' = IF r.err = "" THEN "returned" ELSE "raised"
    /\ UNCHANGED <<lines, lpos, lfield, lmeta>>
    /\ UNCHANGED notParse

NextParse == ParseMetadata \/ EndField \/ ParseAttribute \/ Return

SpecParse == InitParse /\ [][NextParse]_vars

(***************************************************************************)
(* The transformer's row structuring (codec.py), the row structure it gets *)
(* from the grammar generator (grammar_generator.py) and the period block   *)
(* the legacy loader (dfn.py, Dfn._load_v1) hands to both.                 *)
(*                                                                         *)
(* An entry of a block's content is a plain line, a record, or something   *)
(* else; the items of a line are numbered, so that an item is known by its *)
(* position.                                                               *)
(***************************************************************************)
Entry(type, items, names, bound, overflow) ==
    [type |-> type, items |-> items, names |-> names, bound |-> bound,
     overflow |-> overflow]
RawLine(k) == Entry("line", [i \in 1..k |-> i], {}, <<>>, <<>>)
OtherEntry == Entry("token", <<>>, {}, <<>>, <<>>)

\* the last position at which name stands in field_names
LastAt(field_names, name) ==
    CHOOSE i \in 1..Len(field_names) :
        field_names[i] = name /\ \A j \in (i + 1)..Len(field_names) : field_names[j] # name

\* record['fields'] after the loop of assignments: names is the key set and
\* bound[i] is the value found under field_names[i]
RecordOf(field_names, items) ==
    Entry("record", <<>>,
          {field_names[i] : i \in 1..Len(field_names)},
          [i \in 1..Len(field_names) |-> items[LastAt(field_names, field_names[i])]],
          IF Len(items) > Len(field_names)
          THEN SubSeq(items, Len(field_names) + 1, Len(items)) ELSE <<>>)

StructureLine(line, field_names) ==
    IF line.type = "line"
    THEN IF Len(line.items) >= Len(field_names)
         THEN RecordOf(field_names, line.items)
         ELSE line
    ELSE line

\* a _structure_recarray_data that leaves out the items past the columns
StructureDroppingOverflow(content, field_names) ==
    [j \in 1..Len(content) |->
        IF content[j].type = "line" /\ Len(content[j].items) >= Len(field_names)
        THEN [RecordOf(field_names, content[j].items) EXCEPT !.overflow = <<>>]
        ELSE content[j]]

\* a _structure_recarray_data that binds a short line to the first columns
StructureForcing(content, field_names) ==
    [j \in 1..Len(content) |->
        IF content[j].type = "line"
        THEN IF Len(content[j].items) >= Len(field_names)
             THEN RecordOf(field_names, content[j].items)
             ELSE RecordOf(SubSeq(field_names, 1, Len(content[j].items)),
                           content[j].items)
        ELSE content[j]]

\* MF6Transformer._structure_recarray_data
_structure_recarray_data(content, field_names) ==
    [j \in 1..Len(content) |-> StructureLine(content[j], field_names)]

\* a row structure, or None
Structure(fields) == [set |-> TRUE, fields |-> fields, regular |-> Len(fields) > 0]
NoStructure == [set |-> FALSE, fields |-> <<>>, regular |-> FALSE]

\* a variable of a loaded (legacy) Dfn
Var(name, type) == [name |-> name, type |-> type]

\* MF6GrammarGenerator._parse_recarray_structure
_parse_recarray_structure(var) ==
    LET parts == <<var.type.head>> \o var.type.names
    IN IF var.type.head # "recarray" THEN NoStructure
       ELSE IF Len(parts) < 2 THEN NoStructure
       ELSE Structure(SubSeq(parts, 2, Len(parts)))

\* MF6GrammarGenerator._extract_grammar_spec, the entry it makes for the
\* period block from the block's variables in turn
BlockSpec(present, type, structure) ==
    [present |-> present, type |-> type, structure |-> structure]

RECURSIVE _extract_grammar_spec(_, _)
_extract_grammar_spec(vs, spec) ==
    IF vs = <<>>
    THEN IF spec.present THEN [spec EXCEPT !.type = "recarray"] ELSE spec
    ELSE _extract_grammar_spec(Tail(vs),
            IF Head(vs).type.head = "recarray"
            THEN BlockSpec(TRUE, "recarray", _parse_recarray_structure(Head(vs)))
            ELSE BlockSpec(TRUE, "recarray", spec.structure))

\* the period block declared in a definition file: a recarray field naming
\* cols, alone in the block ("only"), followed by a keyword field ("first")
\* or preceded by one ("second"); every name in cols is an in_record scalar
PeriodDecl(cols, place) == [cols |-> cols, place |-> place]

\* keys of a dict filled in the order of names
RECURSIVE Distinct(_)
Distinct(names) ==
    IF names = <<>> THEN <<>>
    ELSE LET rest == Distinct(SubSeq(names, 1, Len(names) - 1))
             n == names[Len(names)]
         IN IF \E i \in 1..Len(rest) : rest[i] = n THEN rest ELSE Append(rest, n)

\* dfn.py Dfn._load_v1 on the period block: _convert_field on the recarray
\* (its type becomes "recarray"), then _convert_recarray_block
_load_v1(decl) ==
    LET recarray == Var("stress_period_data", Type("recarray", <<>>))
        keyword == Var("save_flows", Type("keyword", <<>>))
        columns == SelectSeq(Distinct(decl.cols), LAMBDA c : c # "cellid")
    IN IF Len(decl.cols) < 1
       THEN [err |-> "ValueError: missing list definition", vars |-> <<>>]
       ELSE IF decl.place = "only"
       THEN [err |-> "",
             vars |-> [i \in 1..Len(columns) |->
                          Var(columns[i], Type("double precision", <<>>))]]
       ELSE IF decl.place = "first"
       THEN [err |-> "AssertionError", vars |-> <<>>]
       ELSE [err |-> "", vars |-> <<keyword, recarray>>]

\* MF6Transformer._load_recarray_structures: any exception leaves the
\* structures empty
_load_recarray_structures(decl) ==
    LET dfn == _load_v1(decl)
        spec == _extract_grammar_spec(dfn.vars, BlockSpec(FALSE, "dict", NoStructure))
    IN IF dfn.err # "" THEN NoStructure
       ELSE IF spec.present /\ spec.type = "recarray"
               /\ spec.structure.set /\ spec.structure.regular
       THEN spec.structure
       ELSE NoStructure

\* MF6Transformer.block, the lines of the block it returns
block(content, structure) ==
    IF structure.set THEN _structure_recarray_data(content, structure.fields)
    ELSE content

(***************************************************************************)
(* Declarations, row structures and contents tried.                        *)
(***************************************************************************)
ColNames == {"cellid", "q"}

RECURSIVE ColSeqs(_)
ColSeqs(n) ==
    IF n = 0 THEN {<<>>}
    ELSE LET shorter == ColSeqs(n - 1)
         IN shorter \cup {Append(cs, c) : cs \in {x \in shorter : Len(x) = n - 1},
                                          c \in ColNames}

Entries == {RawLine(k) : k \in 0..MaxItems} \cup {OtherEntry}

RECURSIVE Contents(_)
Contents(n) ==
    IF n = 0 THEN {<<>>}
    ELSE LET shorter == Contents(n - 1)
         IN shorter \cup {Append(c, x) : c \in {y \in shorter : Len(y) = n - 1},
                                         x \in Entries}

InitCodec ==
    /\ cpc = "new"
    /\ \E cols \in ColSeqs(MaxCols) :
         \E place \in {"only", "first", "second"} :
            cdfn = PeriodDecl(cols, place)
    /\ cstructs = NoStructure
    /\ ccols \in ColSeqs(MaxCols)
    /\ ccontent \in Contents(MaxContent)
    /\ cout = <<>>
    /\ TreeIdle
    /\ PeriodIdle
    /\ MapIdle
    /\ StrictIdle
    /\ ParseIdle
    /\ DocIdle
    /\ RegIdle

\* MF6Transformer(component, dfn_dir)
Bind ==
    /\ cpc = "new"
    /\ cstructs' = _load_recarray_structures(cdfn)
    /\ cpc' = "bound"
    /\ UNCHANGED <<cdfn, ccols, ccontent, cout>>
    /\ UNCHANGED notCodec

\* MF6Transformer.block on the component's period block
TransformBlock ==
    /\ cpc = "bound"
    /\ cout' = block(ccontent, cstructs)
    /\ cpc' = "block"
    /\ UNCHANGED <<cdfn, cstructs, ccols, ccontent>>
    /\ UNCHANGED notCodec

\* MF6Transformer._structure_recarray_data(content, structure)
StructureRows ==
    /\ cpc = "new"
    /\ cout' = _structure_recarray_data(ccontent, ccols)
    /\ cpc' = "structured"
    /\ UNCHANGED <<cdfn, cstructs, ccols, ccontent>>
    /\ UNCHANGED notCodec

NextCodec == Bind \/ TransformBlock \/ StructureRows

SpecCodec == InitCodec /\ [][NextCodec]_vars

(***************************************************************************)
(* Hierarchy claims (checked under SpecTree).                              *)
(***************************************************************************)
Inferred == [n \in DOMAIN dfns |-> set_parent(dfns[n])]
NRoots == Cardinality(Roots(Inferred))
RootCountError == "ValueError: expected one root"

\* C1 as stated: whenever the number of parentless components (after parent
\* inference for to_tree, as given for infer_tree) is zero or at least two,
\* assembly fails with the root-count hierarchy error.
C1_AsStated ==
    /\ (tpc \in {"treed", "failed"} /\ NRoots # 1) => tree.err = RootCountError
    /\ (tpc = "inferred" /\ Cardinality(InferRoots(dfns)) # 1)
           => itree.err = RootCountError

\* C1 amended: with zero or at least two parentless components no tree is
\* returned; the failure is the root-count hierarchy error for infer_tree and,
\* for to_tree, whenever the set's first component is at schema version 2
\* (an empty set or a version-1 set fails earlier, with NotImplementedError).
C1_RootCountFails ==
    /\ (tpc \in {"treed", "failed"} /\ NRoots # 1)
           => /\ tpc = "failed"
              /\ tree.err # ""
              /\ tree.nodes = <<>>
              /\ (FirstVersion(Inferred) = 2 => tree.err = RootCountError)
              /\ (FirstVersion(Inferred) = 1 => tree.err = "NotImplementedError")
    /\ (tpc = "inferred" /\ Cardinality(InferRoots(dfns)) # 1)
           => itree.err = RootCountError /\ itree.nodes = <<>>

\* C1 witness: to_tree has rejected a version-2 set with two or more roots
C1_Witness ==
    /\ tpc = "failed"
    /\ NRoots >= 2
    /\ FirstVersion(Inferred) = 2
    /\ tree.err = RootCountError

\* C2: a tree is returned only when the single parentless component carries
\* the designated root name (sim-nam for to_tree, sim for infer_tree).
C2_RootMustBeNamed ==
    /\ tpc = "treed" => tree.root = SimNam
    /\ (tpc = "inferred" /\ itree.err = "") => itree.root = Sim

\* C3: for a flat set with exactly one parentless component (as given and
\* after inference), to_flat(to_tree(flat)) has exactly the input's component
\* names, each with the input's parent and blocks and with children cleared.
C3_RoundTrip ==
    (tpc = "flattened" /\ Cardinality(Roots(dfns)) = 1)
        => /\ DOMAIN flatOut = DOMAIN dfns
           /\ \A n \in DOMAIN flatOut :
                /\ flatOut[n].parent = dfns[n].parent
                /\ flatOut[n].blocks = dfns[n].blocks
                /\ flatOut[n].children = {}

(***************************************************************************)
(* Period-block claims (checked under SpecPeriod).                         *)
(***************************************************************************)
DimNamesOf(shape) == [i \in 1..Len(shape.dims) |-> shape.dims[i].dim]
SameShapes(a, b) ==
    /\ Len(a) = Len(b)
    /\ \A i \in 1..Len(a) : a[i].name = b[i].name /\ a[i].shape = b[i].shape

\* C5: map_period_block applied to its own earlier output returns a block
\* with the same field names and the same shape on every column.
C5_Idempotent ==
    (ppc >= 2 /\ pout.err = "") => SameShapes(pout.block, pprev)

\* C6: when the single list field is unwrapped, cellid is gone and every
\* remaining column has the dimensions nper, then nnodes iff cellid was there,
\* then its original dimensions in order without maxbound; no resulting shape
\* contains maxbound.
C6_ShapeLaw ==
    (ppc = 1 /\ Len(pin) = 1 /\ pin[1].type = "recarray" /\ pout.err = "")
        => LET row == pin[1].children[1].children
               had == "cellid" \in Names(row)
           IN /\ "cellid" \notin Names(pout.block)
              /\ \A i \in 1..Len(row) :
                   row[i].name # "cellid"
                     => /\ row[i].name \in Names(pout.block)
                        /\ LET new == pout.block[Index(pout.block, row[i].name)].shape
                               old == IF Truthy(row[i].shape)
                                      THEN DimNamesOf(row[i].shape) ELSE <<>>
                           IN /\ DimNamesOf(new) =
                                    <<"nper">>
                                    \o (IF had THEN <<"nnodes">> ELSE <<>>)
                                    \o SelectSeq(old, LAMBDA d : d # "maxbound")
                              /\ \A k \in 1..Len(new.dims) :
                                    new.dims[k].dim # "maxbound"

(***************************************************************************)
(* Migration claims (checked under SpecMap).                               *)
(***************************************************************************)
COMPOSITE_TYPES == {"record", "recarray", "keystring"}
ArrayError == "TypeError: unsupported array type"

\* every field of a field list, at any depth
RECURSIVE Nested(_)
Nested(fs) == UNION {{fs[i]} \cup Nested(fs[i].children) : i \in 1..Len(fs)}

AllOut == UNION {Nested(mout.dfn.blocks[i].fields) : i \in 1..Len(mout.dfn.blocks)}

\* every field of the result but the top-level fields of the period block
OutsidePeriodTop ==
    UNION {IF mout.dfn.blocks[i].name = "period"
           THEN UNION {Nested(mout.dfn.blocks[i].fields[k].children) :
                         k \in 1..Len(mout.dfn.blocks[i].fields)}
           ELSE Nested(mout.dfn.blocks[i].fields) :
           i \in 1..Len(mout.dfn.blocks)}

\* a v1 field with a shape whose type is neither composite nor scalar
BadArray(f) ==
    /\ f.shape.set /\ f.shape # EmptyShape
    /\ f.type.head \notin SCALAR_TYPES \cup COMPOSITE_TYPES

TopLevel == SelectSeq(Fields(mdfn), LAMBDA f : ~f.in_record)

\* C4: migrating a component that is already at version 2 returns that same
\* component: no field, block, parent or flag differs.
C4_V2Unchanged ==
    mpc = "remapped" => mout.err = "" /\ mout.dfn = mdfn

\* C4 witness: a version-2 component with fields has been migrated again
C4_Witness ==
    /\ mpc = "remapped"
    /\ mdfn.schema_version = 2
    /\ \E i \in 1..Len(mdfn.blocks) :
          mdfn.blocks[i].name = "period" /\ mdfn.blocks[i].fields # <<>>

\* C8 as stated: in a returned schema every field with a shape has a scalar
\* type (either spelling of double); no composite field carries a shape.
C8_AsStated ==
    (mpc = "mapped" /\ mout.err = "")
        => \A f \in AllOut : f.shape.set => f.type \in SCALAR_TYPES \cup {"double"}

\* C8 amended: in a returned schema every field with a shape, other than the
\* top-level fields of the period block (map_period_block gives each of them a
\* shape whatever its type), has a scalar type or is a composite field
\* (record, recarray, keystring) that kept the shape of its v1 definition.
C8_ShapeOnScalarOrComposite ==
    (mpc = "mapped" /\ mout.err = "")
        => \A f \in OutsidePeriodTop :
              f.shape.set => f.type \in SCALAR_TYPES \cup COMPOSITE_TYPES

\* C8 witness: a returned schema holds a scalar array and a composite field
\* with a shape outside the top level of the period block
C8_Witness ==
    /\ mpc = "mapped"
    /\ mout.err = ""
    /\ \E f \in OutsidePeriodTop : f.shape.set /\ f.type = "double precision"
    /\ \E f \in OutsidePeriodTop : f.shape.set /\ f.type = "recarray"

\* C9: resolving a field with a shape whose type is neither composite nor
\* scalar fails with the unsupported-array-type error, and map then raises
\* and returns no Dfn: for a top-level field, and for a field resolved as the
\* first sibling a top-level composite names.
C9_BadArrayAborts ==
    mpc = "mapped" =>
        /\ (\E i \in 1..Len(TopLevel) : BadArray(TopLevel[i]))
              => mout.err # "" /\ mout.dfn = NoDfn
        /\ (TopLevel # <<>> /\ BadArray(TopLevel[1])) => mout.err = ArrayError
        /\ (/\ TopLevel # <<>>
            /\ TopLevel[1].type.head \in COMPOSITE_TYPES
            /\ Named(Fields(mdfn), TopLevel[1].type.names) # <<>>
            /\ BadArray(Named(Fields(mdfn), TopLevel[1].type.names)[1]))
              => mout.err = ArrayError /\ mout.dfn = NoDfn
        /\ mout.err # "" => mout.dfn = NoDfn

\* C9 witness: map raised the array-type error after resolving another field
C9_Witness ==
    /\ mpc = "mapped"
    /\ mout.err = ArrayError
    /\ mout.dfn = NoDfn
    /\ Len(TopLevel) >= 2
    /\ ~BadArray(TopLevel[1])

\* C10: resolution fails for every recarray, keystring or record directive
\* that names zero siblings (no names, or none matching an in_record sibling),
\* and no returned composite field is without children.
C10_MissingCompositeFails ==
    mpc = "mapped" =>
        /\ (\E i \in 1..Len(TopLevel) :
               /\ TopLevel[i].type.head \in COMPOSITE_TYPES
               /\ Named(Fields(mdfn), TopLevel[i].type.names) = <<>>)
              => mout.err # ""
        /\ mout.err = ""
              => \A f \in AllOut : f.type \in COMPOSITE_TYPES => f.children # <<>>

(***************************************************************************)
(* Deserialisation claims (checked under SpecStrict).                      *)
(***************************************************************************)
\* every field dict of sd's block, and every dict under their "children" keys
NestedDicts ==
    {sd.fields[i] : i \in 1..Len(sd.fields)}
    \cup UNION {{sd.fields[i].children[k] : k \in 1..Len(sd.fields[i].children)} :
                  i \in 1..Len(sd.fields)}

\* the dicts hold what the constructors require
WellFormed ==
    /\ "name" \in sd.keys
    /\ sd.version # "absent" \/ sd.fields # <<>>
    /\ \A fd \in NestedDicts : "name" \in fd.keys

TargetKeys == OwnKeys(field_cls(sd)) \cup FieldKeys

\* C7: in strict mode Dfn.from_dict raises an unrecognized-key error whenever
\* the component dict or any field dict nested in its blocks (a field's
\* children included) has a key outside the target class's key set; in
\* non-strict mode it raises no such error.  The field classes' from_dict do
\* the same for the dict they are given.
C7_StrictLaw ==
    /\ (spc = "dfn" /\ WellFormed) =>
          /\ (sstrict /\ (DfnKeysOf(sd) \ DfnKeys # {}
                          \/ \E fd \in NestedDicts : FieldKeysOf(fd) \ TargetKeys # {}))
                => sdfn.err \in {UnrecognizedDfn, UnrecognizedField}
          /\ ~sstrict => sdfn.err = ""
    /\ (spc \in {"fieldv1", "fieldv2"} /\ "name" \in sd.fields[1].keys) =>
          LET K == OwnKeys(IF spc = "fieldv1" THEN "FieldV1" ELSE "FieldV2")
                     \cup FieldKeys
          IN /\ (sstrict /\ FieldKeysOf(sd.fields[1]) \ K # {})
                   => sfld.err = UnrecognizedField
             /\ ~sstrict => sfld.err = "" /\ sfld.keys = FieldKeysOf(sd.fields[1]) \cap K

\* the top-level fields of the migrated component
TopOut == UNION {{mout.dfn.blocks[i].fields[k] : k \in 1..Len(mout.dfn.blocks[i].fields)} :
                   i \in 1..Len(mout.dfn.blocks)}

\* C11: in a migrated component no field is still named by a registered Ref
\* key: such a field has been replaced by one named for the referenced
\* component.
C11_ForeignKeySubstituted ==
    (mpc = "mapped" /\ mout.err = "")
        => \A f \in TopOut : \A r \in Refs : f.name # r.key

(***************************************************************************)
(* Further hierarchy claims (checked under SpecTree).                      *)
(***************************************************************************)
\* C12: a component given with a parent has that same parent in the tree
\* to_tree returns and in the flat map to_flat makes of it, whatever its name.
C12_GivenParentKept ==
    /\ tpc = "treed" =>
          \A n \in DOMAIN tree.nodes :
             dfns[n].parent # NoParent => tree.nodes[n].parent = dfns[n].parent
    /\ tpc = "flattened" =>
          \A n \in DOMAIN flatOut :
             dfns[n].parent # NoParent => flatOut[n].parent = dfns[n].parent

(***************************************************************************)
(* Parser claims (checked under SpecParse).                                *)
(***************************************************************************)
\* the lines read so far hold a REPLACE directive with a malformed mapping
MalformedRead ==
    \E i \in 1..(lpos - 1) :
        /\ lines[i].kind = "attr" /\ lines[i].key = "description"
        /\ lines[i].value.rkey # ""
        /\ literal_eval(lines[i].value.subs).err # ""

\* C13: a REPLACE directive with a malformed literal mapping is not fatal:
\* parse_dfn does not raise on reading it and goes on with the description
\* left as the file has it.
C13_MalformedReplaceNonFatal ==
    MalformedRead =>
        /\ lerr # SyntaxError
        /\ lpc # "raised" \/ lerr = KeyErrorName

\* C14: parse_dfn raises on no sequence of comment, blank and attribute
\* lines, attribute groups without a name included.
C14_NoFatalSyntax ==
    lpc # "raised"

(***************************************************************************)
(* Further migration claims (checked under SpecMap).                       *)
(***************************************************************************)
\* the output field that a top-level v1 field outside the period block became
OutOf(f) ==
    CHOOSE g \in TopOut : g.name = f.name /\ g.block = f.block

\* the top-level v1 scalar fields whose migrated field is in the result as
\* map_field made it (the period block's fields are reshaped or unwrapped)
KeptScalars ==
    {TopLevel[i] : i \in {k \in 1..Len(TopLevel) :
        /\ TopLevel[k].type.head \in SCALAR_TYPES
        /\ TopLevel[k].block # "period"
        /\ \E g \in TopOut : g.name = TopLevel[k].name /\ g.block = TopLevel[k].block}}

\* C15: in the migrated component every field that was double precision in
\* v1 has type double, and keyword, integer and string fields keep their type.
C15_TypeNormalized ==
    (mpc = "mapped" /\ mout.err = "")
        => /\ \A f \in AllOut : f.type # "double precision"
           /\ \A f \in KeptScalars :
                 OutOf(f).type = (IF f.type.head = "double precision" THEN "double"
                                  ELSE f.type.head)

\* every field of a field list at any depth, whatever the fields are
RECURSIVE NestedAny(_)
NestedAny(fs) ==
    UNION {{fs[i]} \cup (IF "children" \in DOMAIN fs[i] THEN NestedAny(fs[i].children)
                         ELSE {}) : i \in 1..Len(fs)}

\* C16: every field of a migrated component, at every depth, is a v2 field:
\* it has the attributes of FieldV2 and no in_record (nor any other attribute
\* that only FieldV1 has).
C16_AllFieldsV2 ==
    (mpc = "mapped" /\ mout.err = "")
        => \A i \in 1..Len(mout.dfn.blocks) :
              \A f \in NestedAny(mout.dfn.blocks[i].fields) :
                 /\ DOMAIN f = DOMAIN NoField
                 /\ "in_record" \notin DOMAIN f

\* C16 witness: a migrated component holds a composite field with children
\* that were in_record fields of the v1 definition
C16_Witness ==
    /\ mpc = "mapped"
    /\ mout.err = ""
    /\ \E f \in TopOut :
          /\ f.type \in COMPOSITE_TYPES
          /\ f.children # <<>>
          /\ \E i \in 1..Len(parsed) :
                parsed[i].in_record /\ parsed[i].name = f.children[1].name

\* C17: the migrated field of a v1 field with a default has, when its type is
\* not string, the literal value of the default text (text 1 becomes the
\* integer 1) and, when its type is string, the text itself.
C17_DefaultEvaluated ==
    (mpc = "mapped" /\ mout.err = "")
        => \A f \in KeptScalars :
              f.default # NoDefault
                 => OutOf(f).default = (IF f.type.head # "string"
                                        THEN try_literal_eval(f.default)
                                        ELSE f.default)

(***************************************************************************)
(* Transformer claims (checked under SpecCodec).                           *)
(***************************************************************************)
\* the items a record holds, read in column order, then its overflow
Recovered(rec, field_names) ==
    [i \in 1..Len(field_names) |-> rec.bound[i]] \o rec.overflow

\* positions of the content with a line of at least as many items as columns
LongLines == {j \in 1..Len(ccontent) :
                ccontent[j].type = "line" /\ Len(ccontent[j].items) >= Len(ccols)}

\* positions of the content with a line of fewer items than columns
ShortLines == {j \in 1..Len(ccontent) :
                 ccontent[j].type = "line" /\ Len(ccontent[j].items) < Len(ccols)}

NoRepeat(names) == \A i, j \in 1..Len(names) : names[i] = names[j] => i = j

\* C18 as stated: every line with at least n items becomes a record from
\* which the line's items are recovered: the fields in column order, then
\* the overflow.
C18_AsStated ==
    cpc = "structured" =>
        \A j \in LongLines :
           /\ cout[j].type = "record"
           /\ Recovered(cout[j], ccols) = ccontent[j].items

\* C18 amended: every line with at least n items becomes a record whose
\* overflow is the items past the n-th, in order, and whose field for a
\* column name is the item at the last position of that name among the
\* columns; so when no column name is repeated the fields in column order
\* followed by the overflow are the line's items.
C18_OverflowKept ==
    cpc = "structured" =>
        \A j \in LongLines :
           /\ cout[j].type = "record"
           /\ cout[j].overflow = SubSeq(ccontent[j].items, Len(ccols) + 1,
                                        Len(ccontent[j].items))
           /\ cout[j].names = {ccols[i] : i \in 1..Len(ccols)}
           /\ \A i \in 1..Len(ccols) :
                 cout[j].bound[i] = ccontent[j].items[LastAt(ccols, ccols[i])]
           /\ NoRepeat(ccols) => Recovered(cout[j], ccols) = ccontent[j].items

\* C18 witness: a line with more items than the (distinct) columns was
\* structured
C18_Witness ==
    /\ cpc = "structured"
    /\ Len(ccols) >= 2
    /\ NoRepeat(ccols)
    /\ \E j \in LongLines : Len(ccontent[j].items) > Len(ccols)

\* C19: a line with fewer items than columns, and any entry that is not a
\* line, comes out of row structuring as it went in; the output has one
\* entry per input entry.
C19_ShortLineUnchanged ==
    cpc = "structured" =>
        /\ Len(cout) = Len(ccontent)
        /\ \A j \in ShortLines : cout[j] = ccontent[j]
        /\ \A j \in 1..Len(ccontent) :
              ccontent[j].type # "line" => cout[j] = ccontent[j]

\* C19 witness: a line with some items, but fewer than the columns, was
\* structured
C19_Witness ==
    /\ cpc = "structured"
    /\ \E j \in ShortLines : Len(ccontent[j].items) >= 1

\* the period block is declared by one recarray field naming c1..cn, n >= 1
Declared == Len(cdfn.cols) >= 1 /\ cdfn.place = "only"

\* C20: a transformer bound to a component whose period block is declared by
\* a recarray naming c1..cn (n >= 1) holds the row structure [c1..cn] for the
\* period block, and every period line with at least n items comes out of
\* block as a record.
C20_BoundStructure ==
    /\ (cpc \in {"bound", "block"} /\ Declared) =>
          cstructs.set /\ cstructs.fields = cdfn.cols
    /\ (cpc = "block" /\ Declared) =>
          \A j \in 1..Len(ccontent) :
             (ccontent[j].type = "line" /\ Len(ccontent[j].items) >= Len(cdfn.cols))
                => cout[j].type = "record"

(***************************************************************************)
(* Input parsing (codec.py parse_mf6_input): the text is parsed into a     *)
(* tree of blocks, lines and items, and MF6Transformer walks the tree      *)
(* bottom-up.  A token's text is a sequence of characters.                 *)
(***************************************************************************)
Digits == {"0", "1", "2", "3", "4", "5", "6", "7", "8", "9"}
DigitVal(c) ==
    CASE c = "0" -> 0 [] c = "1" -> 1 [] c = "2" -> 2 [] c = "3" -> 3
      [] c = "4" -> 4 [] c = "5" -> 5 [] c = "6" -> 6 [] c = "7" -> 7
      [] c = "8" -> 8 [] c = "9" -> 9

RECURSIVE DigitsVal(_)
DigitsVal(cs) ==
    IF cs = <<>> THEN 0
    ELSE DigitsVal(SubSeq(cs, 1, Len(cs) - 1)) * 10 + DigitVal(cs[Len(cs)])

AllDigits(cs) == Len(cs) > 0 /\ \A i \in 1..Len(cs) : cs[i] \in Digits

\* the first position of cs holding a character of S, 0 when there is none
FirstIn(cs, S) ==
    IF \E i \in 1..Len(cs) : cs[i] \in S
    THEN CHOOSE i \in 1..Len(cs) : cs[i] \in S /\ \A j \in 1..(i - 1) : cs[j] \notin S
    ELSE 0

Signed(cs) == Len(cs) > 0 /\ cs[1] \in {"+", "-"}
Unsigned(cs) == IF Signed(cs) THEN Tail(cs) ELSE cs
SignOf(cs) == IF Signed(cs) /\ cs[1] = "-" THEN -1 ELSE 1

\* the values an item can have: a string, an integer, a float (mant * 10^exp,
\* mant not a multiple of ten unless zero), and the exception int() and
\* float() raise
StrItem(chars) == [kind |-> "str", chars |-> chars, mant |-> 0, exp |-> 0]
IntItem(n) == [kind |-> "int", chars |-> <<>>, mant |-> n, exp |-> 0]
ValueError == [kind |-> "ValueError", chars |-> <<>>, mant |-> 0, exp |-> 0]

RECURSIVE FloatItem(_, _)
FloatItem(mant, exp) ==
    IF mant = 0 THEN [kind |-> "float", chars |-> <<>>, mant |-> 0, exp |-> 0]
    ELSE IF mant % 10 = 0 THEN FloatItem(mant \div 10, exp + 1)
    ELSE [kind |-> "float", chars |-> <<>>, mant |-> mant, exp |-> exp]

\* int(value)
int(value) ==
    IF AllDigits(Unsigned(value))
    THEN IntItem(SignOf(value) * DigitsVal(Unsigned(value)))
    ELSE ValueError

\* float(value)
float(value) ==
    LET e == FirstIn(value, {"e", "E"})
        head == IF e = 0 THEN value ELSE SubSeq(value, 1, e - 1)
        tail == IF e = 0 THEN <<>> ELSE SubSeq(value, e + 1, Len(value))
        body == Unsigned(head)
        dot == FirstIn(body, {"."})
        whole == IF dot = 0 THEN body ELSE SubSeq(body, 1, dot - 1)
        frac == IF dot = 0 THEN <<>> ELSE SubSeq(body, dot + 1, Len(body))
        power == IF e = 0 THEN 0 ELSE SignOf(tail) * DigitsVal(Unsigned(tail))
    IN IF /\ Len(whole) + Len(frac) > 0
          /\ \A i \in 1..Len(whole) : whole[i] \in Digits
          /\ \A i \in 1..Len(frac) : frac[i] \in Digits
          /\ (e # 0 => AllDigits(Unsigned(tail)))
       THEN FloatItem(SignOf(head) * DigitsVal(whole \o frac), power - Len(frac))
       ELSE ValueError

\* value.lower() contains "e", or value contains "."
Marked(value) == \E i \in 1..Len(value) : value[i] \in {".", "e", "E"}

\* MF6Transformer.NUMBER read as always making a float
NUMBER_AllFloat(token) == float(token.chars)

\* MF6Transformer.NUMBER
NUMBER(token) ==
    LET value == token.chars
        tried == IF Marked(value) THEN float(value) ELSE int(value)
    IN IF tried = ValueError THEN float(value) ELSE tried

\* MF6Transformer.word
word(items) == StrItem(items[1].chars)

\* MF6Transformer.item
item(items) == items[1]

\* the value None in a list of items
None == [kind |-> "None", chars |-> <<>>, mant |-> 0, exp |-> 0]

\* MF6Transformer.line
line(items) == [type |-> "line", items |-> SelectSeq(items, LAMBDA i : i # None)]

\* MF6Transformer._content
_content(items) == SelectSeq(items, LAMBDA i : i.type # "None")

\* what block() finds in its item list: a name, an index, or the content
NameNode(s) == [kind |-> "str", s |-> s, n |-> 0, l |-> <<>>]
IndexNode(n) == [kind |-> "int", s |-> "", n |-> n, l |-> <<>>]
ContentNode(l) == [kind |-> "list", s |-> "", n |-> 0, l |-> l]
NoIndex == [some |-> FALSE, n |-> 0]
SomeIndex(n) == [some |-> TRUE, n |-> n]

\* str.lower(), on the block names tried
lower(s) ==
    CASE s = "OPTIONS" -> "options"
      [] s = "Period" -> "period"
      [] OTHER -> s

\* MF6Transformer.block read as leaving the name as written
block_NameKept(items) ==
    LET indexed == Len(items) >= 3 /\ items[2].kind = "int"
    IN [type |-> "block", name |-> items[1].s,
        index |-> IF indexed THEN SomeIndex(items[2].n) ELSE NoIndex,
        lines |-> IF indexed THEN items[3].l ELSE items[2].l]

\* MF6Transformer.block over the items of a block node; a transformer made by
\* transform_mf6_input holds no row structure
MF6Transformer_block(items) ==
    LET block_name == items[1].s
        indexed == Len(items) >= 3 /\ items[2].kind = "int"
        block_index == IF indexed THEN SomeIndex(items[2].n) ELSE NoIndex
        content == IF indexed THEN items[3].l ELSE items[2].l
    IN [type |-> "block", name |-> lower(block_name), index |-> block_index,
        lines |-> block(content, NoStructure)]

\* MF6Transformer.start
start(items) == [type |-> "mf6_input", blocks |-> SelectSeq(items, LAMBDA i : i.type = "block")]

\* MF6Transformer.CNAME, INT and _block_index
CNAME(token) == token
INT(token) == int(token).mant
_block_index(items) == items[1]

\* a terminal of the tree and a BEGIN/END section of the text
Tok(kind, chars) == [kind |-> kind, chars |-> chars]
Section(name, index, rows) == [name |-> name, index |-> index, lines |-> rows]

\* the item list of a block node, its children already transformed: the name,
\* the index when one is written, the content, and the END tag's name and index
Children(sec) ==
    LET idx == IF sec.index = <<>> THEN <<>>
               ELSE <<IndexNode(_block_index(<<INT(sec.index)>>))>>
        items(l) == [i \in 1..Len(l) |->
                        item(<<IF l[i].kind = "NUMBER" THEN NUMBER(l[i])
                               ELSE word(<<l[i]>>)>>)]
        rows == [j \in 1..Len(sec.lines) |-> line(items(sec.lines[j]))]
    IN <<NameNode(CNAME(sec.name))>> \o idx \o <<ContentNode(_content(rows))>>
       \o <<NameNode(CNAME(sec.name))>> \o idx

\* transform_mf6_input(parser.parse(text))
parse_mf6_input(text) ==
    start([b \in 1..Len(text) |-> MF6Transformer_block(Children(text[b]))])

(***************************************************************************)
(* Texts tried: up to MaxBlocks sections holding up to MaxDocLines lines   *)
(* in all.                                                                 *)
(***************************************************************************)
W(chars) == Tok("WORD", chars)
N(chars) == Tok("NUMBER", chars)

DocLines == {
    <<W(<<"T", "D", "I", "S", "6">>), W(<<"a", ".", "t", "d", "i", "s">>)>>,
    <<W(<<"n">>), N(<<"4", "2">>)>>,
    <<N(<<"3", ".", "1", "4">>), N(<<"1", ".", "5", "e", "-", "3">>)>>,
    <<N(<<"1", "E", "2">>), N(<<"-", "7">>)>>,
    <<N(<<".", "5">>), N(<<"1", "0", ".">>), N(<<"2", "e", "1">>)>>}

RECURSIVE DocLineSeqs(_)
DocLineSeqs(n) ==
    IF n = 0 THEN {<<>>}
    ELSE {<<l>> \o rest : l \in DocLines, rest \in DocLineSeqs(n - 1)}

Headers == {<<"OPTIONS", <<>>>>, <<"Period", <<>>>>, <<"Period", <<"1", "2">>>>}

RECURSIVE Docs(_, _)
Docs(b, l) ==
    {<<>>} \cup
    (IF b = 0 THEN {}
     ELSE UNION {{<<Section(h[1], h[2], ls)>> \o rest :
                     h \in Headers, ls \in DocLineSeqs(k), rest \in Docs(b - 1, l - k)} :
                 k \in 0..l})

InitDoc ==
    /\ dpc = "text"
    /\ dtext \in Docs(MaxBlocks, MaxDocLines)
    /\ dout = start(<<>>)
    /\ TreeIdle
    /\ PeriodIdle
    /\ MapIdle
    /\ StrictIdle
    /\ ParseIdle
    /\ CodecIdle
    /\ RegIdle

\* parse_mf6_input(text)
ParseMf6Input ==
    /\ dpc = "text"
    /\ dout' = parse_mf6_input(dtext)
    /\ dpc' = "transformed"
    /\ UNCHANGED dtext
    /\ UNCHANGED notDoc

NextDoc == ParseMf6Input

SpecDoc == InitDoc /\ [][NextDoc]_vars

(***************************************************************************)
(* Input parsing claims (checked under SpecDoc).                           *)
(***************************************************************************)
\* the value an item of the text has in a line of the document
ItemsMatch(toks, items) ==
    /\ Len(items) = Len(toks)
    /\ \A i \in 1..Len(toks) :
         IF toks[i].kind = "WORD" THEN items[i] = StrItem(toks[i].chars)
         ELSE items[i] \in {int(toks[i].chars), float(toks[i].chars)} \ {ValueError}

\* C21: the document has one block per section, in input order; a block's
\* name is the section's name lower-cased, its index the integer written
\* after the name or none, and its lines the section's lines in order, each
\* holding its items in order.
C21_StructurePreserved ==
    dpc = "transformed" =>
        /\ dout.type = "mf6_input"
        /\ Len(dout.blocks) = Len(dtext)
        /\ \A b \in 1..Len(dtext) :
             LET sec == dtext[b]
                 blk == dout.blocks[b]
             IN /\ blk.name = lower(sec.name)
                /\ blk.name \in {"options", "period"}
                /\ blk.index = (IF sec.index = <<>> THEN NoIndex
                                ELSE SomeIndex(DigitsVal(sec.index)))
                /\ Len(blk.lines) = Len(sec.lines)
                /\ \A j \in 1..Len(sec.lines) :
                     /\ blk.lines[j].type = "line"
                     /\ ItemsMatch(sec.lines[j], blk.lines[j].items)

C21_Witness ==
    /\ dpc = "transformed"
    /\ Len(dtext) = 2
    /\ dtext[1].index = <<>> /\ dtext[1].lines = <<>>
    /\ dtext[2].index # <<>> /\ Len(dtext[2].lines) = 2
    /\ dout.blocks[2].index = SomeIndex(12)
    /\ dout.blocks[1].lines = <<>>

\* the number tokens of the text with the items they became
Numbers ==
    {<<dtext[b].lines[j][i], dout.blocks[b].lines[j].items[i]>> :
        <<b, j, i>> \in {t \in (1..Len(dtext)) \X (1..MaxDocLines) \X (1..3) :
                          /\ t[2] <= Len(dtext[t[1]].lines)
                          /\ t[3] <= Len(dtext[t[1]].lines[t[2]])
                          /\ dtext[t[1]].lines[t[2]][t[3]].kind = "NUMBER"}}

\* C22: a number item is an integer exactly when its text has no decimal
\* point and no exponent marker, and a float otherwise; 42 is the integer 42,
\* 3.14 and 1.5e-3 are the floats 314 * 10^-2 and 15 * 10^-4.
C22_NumberLaw ==
    dpc = "transformed" =>
        \A p \in Numbers :
            /\ p[2].kind = (IF Marked(p[1].chars) THEN "float" ELSE "int")
            /\ p[1].chars = <<"4", "2">> => p[2] = IntItem(42)
            /\ p[1].chars = <<"3", ".", "1", "4">> => p[2] = FloatItem(314, -2)
            /\ p[1].chars = <<"1", ".", "5", "e", "-", "3">> => p[2] = FloatItem(15, -4)

C22_Witness ==
    /\ dpc = "transformed"
    /\ \E p \in Numbers : p[2] = IntItem(42)
    /\ \E p \in Numbers : p[2] = FloatItem(15, -4)

(***************************************************************************)
(* Period-named blocks (checked under SpecMap).                            *)
(***************************************************************************)
\* the top-level fields the loaded component has in the block
V1Block(name) == SelectSeq(TopLevel, LAMBDA f : f.block = name)

\* the block of the migrated component with the name
OutBlock(name) == mout.dfn.blocks[Index(mout.dfn.blocks, name)].fields

\* the blocks tried whose name is period or contains period
PeriodNamed == {"period", "perioddata"}

\* the columns of the row of a table, cellid apart
RowColumns(f) ==
    LET all == Fields(mdfn)
        r == map_field(all, f, Len(all) + 1)
    IN Names(r.val.children[1].children) \ {"cellid"}

\* C23: in a migrated component a block whose name is period or contains
\* period, and whose one field is a list, no longer holds the list, and the
\* row's columns other than cellid are its fields.
C23_PeriodNamedUnwrapped ==
    (mpc = "mapped" /\ mout.err = "")
        => \A name \in PeriodNamed :
              (Len(V1Block(name)) = 1 /\ V1Block(name)[1].type.head = "recarray")
                  => /\ name \in Names(mout.dfn.blocks)
                     /\ \A k \in 1..Len(OutBlock(name)) :
                           OutBlock(name)[k].type # "recarray"
                     /\ Names(OutBlock(name)) = RowColumns(V1Block(name)[1])

\* the same, read for the block named period only
PeriodUnwrapped ==
    (mpc = "mapped" /\ mout.err = "")
        => ((Len(V1Block("period")) = 1 /\ V1Block("period")[1].type.head = "recarray")
              => /\ "period" \in Names(mout.dfn.blocks)
                 /\ \A k \in 1..Len(OutBlock("period")) :
                       OutBlock("period")[k].type # "recarray"
                 /\ Names(OutBlock("period")) = RowColumns(V1Block("period")[1]))

(***************************************************************************)
(* The local model registry (models.py LocalRegistry).  A path under the   *)
(* indexed directory is the sequence of its parts; a dict is the sequence  *)
(* of its entries in insertion order.                                      *)
(***************************************************************************)
ModelDir(parts, files) == [parts |-> parts, files |-> files]
Registry(paths, files, models, examples) ==
    [paths |-> paths, files |-> files, models |-> models, examples |-> examples]

\* LocalRegistry.__init__
EmptyRegistry == Registry({}, <<>>, <<>>, <<>>)

\* any(e in p.name for e in LocalRegistry.exclude), on the file names tried
Excluded(name) == name \in {".DS_Store", "compare.txt"}

\* the loop over model_path.rglob("*")
RECURSIVE IndexFiles(_, _, _, _)
IndexFiles(reg, model_name, parts, files) ==
    IF files = <<>> THEN reg
    ELSE LET name == Append(parts, Head(files))
             at == Index(reg.models, model_name)
         IN IF Excluded(Head(files))
            THEN IndexFiles(reg, model_name, parts, Tail(files))
            ELSE IndexFiles(
                    [reg EXCEPT !.files = Put(reg.files, [name |-> name, path |-> name]),
                                !.models[at].files = Append(reg.models[at].files, name)],
                    model_name, parts, Tail(files))

\* the body of the loop over model_paths
IndexModel(reg, dir, model_name_prefix) ==
    LET rel_path == dir.parts
        model_name == IF model_name_prefix # "" THEN <<model_name_prefix>> \o rel_path
                      ELSE rel_path
        named == [reg EXCEPT !.models = Put(reg.models, [name |-> model_name, files |-> <<>>])]
        name == rel_path[1]
        made == IF Len(rel_path) > 1 /\ name \notin Names(named.examples)
                THEN [named EXCEPT !.examples = Append(named.examples,
                                                       [name |-> name, models |-> <<>>])]
                ELSE named
        listed == IF Len(rel_path) > 1
                  THEN LET at == Index(made.examples, name)
                       IN [made EXCEPT !.examples[at].models =
                                          Append(made.examples[at].models, model_name)]
                  ELSE made
    IN IndexFiles(listed, model_name, rel_path, dir.files)

RECURSIVE IndexModels(_, _, _)
IndexModels(reg, model_paths, model_name_prefix) ==
    IF model_paths = <<>> THEN reg
    ELSE IndexModels(IndexModel(reg, Head(model_paths), model_name_prefix),
                     Tail(model_paths), model_name_prefix)

\* get_model_paths(path): the model directories under the path
get_model_paths(disk) == disk

\* LocalRegistry.index(path, model_name_prefix=...)
index(reg, disk, model_name_prefix) ==
    IndexModels([reg EXCEPT !.paths = reg.paths \cup {"path"}],
                get_model_paths(disk), model_name_prefix)

(***************************************************************************)
(* Directories tried: up to MaxModels model directories, at the top of the *)
(* path or one level down.                                                 *)
(***************************************************************************)
ModelDirs == {
    ModelDir(<<"m">>, <<"mfsim.nam">>),
    ModelDir(<<"n">>, <<"mfsim.nam", ".DS_Store">>),
    ModelDir(<<"ex", "a">>, <<"mfsim.nam", "a.dis">>),
    ModelDir(<<"ex", "b">>, <<"mfsim.nam", "compare.txt">>),
    ModelDir(<<"ex2", "a">>, <<"mfsim.nam">>)}

RECURSIVE Disks(_)
Disks(n) ==
    IF n = 0 THEN {<<>>}
    ELSE LET shorter == Disks(n - 1)
         IN shorter \cup
            UNION {{Append(d, m) : m \in {x \in ModelDirs :
                                            \A i \in 1..(n - 1) : d[i] # x}} :
                   d \in {x \in shorter : Len(x) = n - 1}}

InitReg ==
    /\ rpc = 0
    /\ rdisk \in Disks(MaxModels)
    /\ rprefix \in {"", "mf6"}
    /\ rreg = EmptyRegistry
    /\ rfirst = EmptyRegistry
    /\ TreeIdle
    /\ PeriodIdle
    /\ MapIdle
    /\ StrictIdle
    /\ ParseIdle
    /\ CodecIdle
    /\ DocIdle

\* registry.index(path, model_name_prefix=prefix), the files on disk unchanged
IndexPath ==
    /\ rpc < MaxIndex
    /\ rreg' = index(rreg, rdisk, rprefix)
    /\ rfirst' = IF rpc = 0 THEN index(rreg, rdisk, rprefix) ELSE rfirst
    /\ rpc' = rpc + 1
    /\ UNCHANGED <<rdisk, rprefix>>
    /\ UNCHANGED notReg

NextReg == IndexPath

SpecReg == InitReg /\ [][NextReg]_vars

(***************************************************************************)
(* Registry claims (checked under SpecReg).                                *)
(***************************************************************************)
\* C24: a second call of index with the same path and arguments leaves the
\* registry's paths, files, models and examples as the first call left them.
C24_IndexIdempotent ==
    rpc >= 2 =>
        /\ rreg.paths = rfirst.paths
        /\ rreg.files = rfirst.files
        /\ rreg.models = rfirst.models
        /\ rreg.examples = rfirst.examples

\* the same, for the paths, files and models maps only
IndexKeepsFiles ==
    rpc >= 2 =>
        /\ rreg.paths = rfirst.paths
        /\ rreg.files = rfirst.files
        /\ rreg.models = rfirst.models

(***************************************************************************)
(* Parent inference and termination (checked under SpecTree).              *)
(***************************************************************************)
\* the parent the name rule gives a component that has none set
RuleParent(name) ==
    CASE name = SimNam -> NoParent
      [] name # SimNam /\ Len(name) >= 2 /\ name[Len(name)] = "nam" -> SimNam
      [] Len(name) >= 2 /\ name[Len(name)] # "nam"
            /\ name[1] \in {"exg", "sln", "utl"} -> SimNam
      [] Len(name) >= 2 /\ name[Len(name)] # "nam"
            /\ name[1] \notin {"exg", "sln", "utl"} -> <<name[1], "nam">>
      [] OTHER -> NoParent

RECURSIVE Calls(_, _, _)
RECURSIVE CallsOver(_, _, _)
Calls(ds, n, fuel) ==
    IF fuel = 0 THEN 1
    ELSE 1 + CallsOver(ds, ChildNames(ds, n), fuel - 1)
CallsOver(ds, S, fuel) ==
    IF S = {} THEN 0
    ELSE LET c == CHOOSE x \in S : TRUE
         IN Calls(ds, c, fuel) + CallsOver(ds, S \ {c}, fuel)

\* the nodes of the tree that hold n among their children
Holders(n) == {m \in DOMAIN tree.nodes : n \in tree.nodes[m].children}

\* C29: for a version-2 flat set with exactly one parentless component,
\* whatever cycles or unknown names its parent links hold, the recursive
\* build returns a tree, calls _build_tree once for each component of the
\* tree, and places each component under at most one node.
C29_BuildTerminates ==
    (tpc \in {"treed", "failed"} /\ FirstVersion(Inferred) = 2 /\ NRoots = 1)
        => /\ tree.err = ""
           /\ DOMAIN tree.nodes \subseteq DOMAIN dfns
           /\ Calls(Inferred, tree.root, Cardinality(DOMAIN dfns) + 1)
                 = Cardinality(DOMAIN tree.nodes)
           /\ \A n \in DOMAIN tree.nodes :
                 Cardinality(Holders(n)) = (IF n = tree.root THEN 0 ELSE 1)

\* C29 witness: a tree was built from a set in which two components are each
\* other's parent and a third is the root
C29_Witness ==
    /\ tpc = "treed" /\ tree.err = "" /\ NRoots = 1
    /\ \E a, b \in DOMAIN dfns :
          a # b /\ Inferred[a].parent = b /\ Inferred[b].parent = a

(***************************************************************************)
(* Composite resolution (checked under SpecMap).                           *)
(***************************************************************************)
\* the field map_field makes of a field of the loaded component
Resolved(f) == map_field(Fields(mdfn), f, Len(Fields(mdfn)) + 1).val

\* the top-level tables outside the period block, which map_period_block
\* unwraps
Tables ==
    {TopLevel[i] : i \in {k \in 1..Len(TopLevel) :
        TopLevel[k].type.head = "recarray" /\ TopLevel[k].block # "period"}}

\* the in_record fields a composite names
Siblings(f) == Named(Fields(mdfn), f.type.names)

\* the row a table has by the three rules
RowAsStated(f, row) ==
    LET sibs == Siblings(f)
        types == {sibs[i].type.head : i \in 1..Len(sibs)}
    IN IF Len(f.type.names) = 1 /\ types \subseteq {"record", "keystring"}
       THEN row = Resolved(FirstNamed(Fields(mdfn), f.type.names[1]))
       ELSE IF types \subseteq SCALAR_TYPES
       THEN row.type = "record" /\ Names(row.children) = Names(sibs)
       ELSE IF Len(sibs) = 1 /\ Resolved(sibs[1]).type = "keystring"
       THEN /\ row.name = sibs[1].name
            /\ row.type = "keystring"
            /\ row.children = Resolved(sibs[1]).children
       ELSE /\ row.type = "record"
            /\ Names(row.children) = Names(sibs)
            /\ \A i \in 1..Len(sibs) :
                  \E k \in 1..Len(row.children) : row.children[k] = Resolved(sibs[i])

\* C26: a resolved recarray field has type recarray and one child, its row:
\* the one named record or keystring sibling resolved; or a record of the
\* named siblings when all are scalars; or else a record wrapping the named
\* siblings resolved, a single union being the row itself.
C26_RowChosen ==
    (mpc = "mapped" /\ mout.err = "")
        => \A f \in Tables :
              (\E g \in TopOut : g.name = f.name /\ g.block = f.block)
                  => /\ OutOf(f).type = "recarray"
                     /\ Len(OutOf(f).children) = 1
                     /\ RowAsStated(f, OutOf(f).children[1])

\* the same, for tables whose named siblings are all scalars or are one
\* record or keystring
RowOfScalarsOrOne ==
    (mpc = "mapped" /\ mout.err = "")
        => \A f \in Tables :
              ((\E g \in TopOut : g.name = f.name /\ g.block = f.block)
               /\ LET types == {Siblings(f)[i].type.head : i \in 1..Len(Siblings(f))}
                  IN \/ types \subseteq SCALAR_TYPES
                     \/ Len(f.type.names) = 1 /\ types \subseteq {"record", "keystring"})
                  => /\ OutOf(f).type = "recarray"
                     /\ Len(OutOf(f).children) = 1
                     /\ RowAsStated(f, OutOf(f).children[1])

\* the top-level records and unions outside the period block that are in the
\* migrated component
Composites ==
    {TopLevel[i] : i \in {k \in 1..Len(TopLevel) :
        /\ TopLevel[k].type.head \in {"record", "keystring"}
        /\ TopLevel[k].block # "period"
        /\ \E g \in TopOut : g.name = TopLevel[k].name /\ g.block = TopLevel[k].block}}

\* the fields of the component that a record or keystring directive takes
Eligible(f) ==
    SelectSeq(Fields(mdfn),
              LAMBDA g : /\ InNames(g.name, f.type.names)
                         /\ g.in_record
                         /\ (f.type.head = "record" => g.type.head # "record"))

\* C27: a resolved record has type record and as children the named fields
\* that are in_record and are not themselves records; a resolved keystring
\* has type keystring and as children the named fields that are in_record;
\* no other field is a child.
C27_ChildrenAsNamed ==
    (mpc = "mapped" /\ mout.err = "")
        => \A f \in Composites :
              /\ OutOf(f).type = f.type.head
              /\ Names(OutOf(f).children) = Names(Eligible(f))
              /\ \A k \in 1..Len(OutOf(f).children) :
                    \E i \in 1..Len(Eligible(f)) :
                        OutOf(f).children[k] = Resolved(Eligible(f)[i])

\* C27 witness: a keystring naming an in_record field and a field that is
\* not in_record has been resolved
C27_Witness ==
    /\ mpc = "mapped" /\ mout.err = ""
    /\ \E f \in Composites :
          /\ f.type = Type("keystring", <<"q", "save">>)
          /\ "save" \in Names(TopLevel)
          /\ Names(OutOf(f).children) = {"q"}

(***************************************************************************)
(* Field groups (checked under SpecParse).                                 *)
(***************************************************************************)
\* the attribute lines of the file in groups: a blank line or the end of
\* the file ends a group, a comment line does neither and is in no group
RECURSIVE GroupsFrom(_, _, _)
GroupsFrom(ls, cur, acc) ==
    IF ls = <<>> THEN (IF cur = <<>> THEN acc ELSE Append(acc, cur))
    ELSE IF Head(ls).kind = "comment" THEN GroupsFrom(Tail(ls), cur, acc)
    ELSE IF Head(ls).kind = "blank"
         THEN GroupsFrom(Tail(ls), <<>>, IF cur = <<>> THEN acc ELSE Append(acc, cur))
    ELSE GroupsFrom(Tail(ls), Append(cur, Head(ls)), acc)

Groups == GroupsFrom(lines, <<>>, <<>>)

\* the value of the last name line of a group
GroupName(g) ==
    g[CHOOSE i \in 1..Len(g) :
          g[i].key = "name" /\ \A j \in (i + 1)..Len(g) : g[j].key # "name"].value

\* the attribute keys of a group
GroupKeys(g) ==
    {IF g[i].key = "default_value" THEN "default" ELSE g[i].key : i \in 1..Len(g)}

\* C28: parse_dfn returns one entry for each nonempty group of attribute
\* lines, in file order, under the group's name and with the group's
\* attributes; groups of the same name are all there, and a comment line
\* neither ends a group nor adds to it.
C28_OneEntryPerGroup ==
    lpc = "returned" =>
        /\ Len(lfields) = Len(Groups)
        /\ \A k \in 1..Len(Groups) :
              /\ lfields[k][1] = GroupName(Groups[k])
              /\ DOMAIN lfields[k][2] = GroupKeys(Groups[k])

\* C28 witness: two groups of the same name have been returned
C28_Witness ==
    /\ lpc = "returned"
    /\ Len(lfields) = 2
    /\ lfields[1][1] = lfields[2][1]

\* a file in which a comment line stands inside a group has been returned
CommentInGroup ==
    /\ lpc = "returned"
    /\ Len(lines) = 3 /\ lines[2].kind = "comment"
    /\ Len(lfields) = 1 /\ Cardinality(DOMAIN lfields[1][2]) = 2

(***************************************************************************)
(* Loading and migrating (checked under SpecMap).                          *)
(***************************************************************************)
\* the attribute records of the file that are not in_record
TopParsed == SelectSeq(parsed, LAMBDA f : ~f.in_record)

\* the loaded component has the record as a field of the record's block
Loaded(f) ==
    \E b \in 1..Len(mdfn.blocks) :
        /\ mdfn.blocks[b].name = f.block
        /\ \E k \in 1..Len(mdfn.blocks[b].fields) : mdfn.blocks[b].fields[k] = f

\* the migrated component has a field of the record's name in the record's
\* block
Migrated(f) ==
    \E b \in 1..Len(mout.dfn.blocks) :
        /\ mout.dfn.blocks[b].name = f.block
        /\ f.name \in Names(mout.dfn.blocks[b].fields)

\* every attribute record of the file that is not in_record is a field of its
\* block in the loaded component and, for a block other than period, in the
\* migrated component
NoFieldLost ==
    /\ mpc = "loaded" => \A i \in 1..Len(TopParsed) : Loaded(TopParsed[i])
    /\ (mpc = "mapped" /\ mout.err = "")
          => \A i \in 1..Len(TopParsed) :
                TopParsed[i].block # "period" => Migrated(TopParsed[i])

\* the records of one block follow each other in the file
Contiguous ==
    \A i, k \in 1..Len(parsed) :
        (i < k /\ parsed[i].block = parsed[k].block)
            => \A j \in i..k : parsed[j].block = parsed[i].block

\* no name stands twice in the file
NoNameTwice ==
    \A i, k \in 1..Len(parsed) : i # k => parsed[i].name # parsed[k].name

\* no name stands twice in one block
NoNameTwiceInBlock ==
    \A i, k \in 1..Len(parsed) :
        (i # k /\ parsed[i].name = parsed[k].name) => parsed[i].block # parsed[k].block

\* C30: loading and migrating lose no top-level field: every attribute
\* record of the file that is not in_record is a field of its block in the
\* loaded component and, for a block other than period, in the migrated
\* component, also when the records of one block do not follow each other
\* in the file.  Read here for files in which no name stands twice.
C30_NoFieldLost == NoNameTwice => NoFieldLost

\* the same for files in which a name stands twice, in different blocks, the
\* records of each block following each other
NoFieldLostTwice == (Contiguous /\ NoNameTwiceInBlock) => NoFieldLost

\* the same for files in which no name stands twice and the records of each
\* block follow each other
NoFieldLostInOrder == (Contiguous /\ NoNameTwice) => NoFieldLost

====
